---- MODULE Spec2Model ----
(***************************************************************************)
(* Syncterra: the library scanner (backend/core/scanner.py) and the device *)
(* syncer (backend/core/syncer.py) as state machines.                      *)
(*                                                                         *)
(* Path strings are sequences of tokens: the separator "/" (or "\\") and   *)
(* path components ("m", "A", "f.mp3").  The os.path functions used by the *)
(* code are computed on these sequences as posixpath computes them.        *)
(***************************************************************************)
EXTENDS Integers, Sequences, FiniteSets, TLC

VARIABLES
    \* ---- the world the scanner observes
    fs,                 \* file (component sequence) -> [mtime, tag]
    scan_paths,         \* setting "scan_paths": sequence of root path strings
    exclude_dirs,       \* setting "exclude_dirs": set of directory names
    target_exts,        \* setting "target_exts", normalised: set of ".ext"
    catalog,            \* committed tracks table: file_path -> Track
    now,                \* clock used for added_date
    \* ---- one scan pass (ScannerService.run_scan)
    spc,                \* position of the pass
    files_to_process,   \* result of _scan_filesystem
    processed_files,    \* loop index of the per-file loop
    existing_tracks,    \* session objects loaded at line 100 (file_path -> Track)
    new_tracks,         \* pending db.add() rows, in order
    files_scanned_set,
    added_count,
    updated_count,
    missing_count,
    \* ---- observation of the pass (history)
    start_catalog,      \* catalog when the pass started
    written,            \* <<file_path, field>> pairs assigned on existing rows in this pass
    extracted,          \* file paths given to _extract_metadata in this pass
    clean_since,        \* TRUE: a pass committed and nothing on disk/settings changed since
    pass_clean,         \* clean_since as it was when the pass started
    progress_log,       \* the values passed to progress_callback in this pass, in order
    last_progress,      \* line 91: the last value reported from the loop
    scan_log,           \* the lines passed to log_callback in this pass, in order
    commits,            \* the commits of this pass that went through
    changes,            \* number of changes made by the environment so far
    \* ---- what a sync pass reads (SyncService.run_sync)
    tracks,             \* the Track rows loaded at line 602, in order
    db_playlists,       \* the Playlist rows loaded at line 610, with their PlaylistTrack rows
    deleted_ids,        \* the ids of the Track rows deleted through the API
    sync_mode,          \* setting "sync_mode"
    sync_exts,          \* setting "target_exts" as synchronize normalises it
    rsync_paths_set,    \* rsync: whether setting "scan_paths" names a root
    rsync_settings,     \* rsync: settings rsync_host, rsync_user, rsync_use_key,
                        \* rsync_key_path, rsync_pass ("" when not set)
    key_file_exists,    \* rsync: whether the file at rsync_key_path exists
    ftp_up,             \* ftp: whether the server accepts the connection and the login
    dest_exists,        \* whether the destination directory exists when the pass starts
    sync_passes,        \* sync passes that have ended
    prev_clean,         \* the last pass ran to its end with every transport operation
                        \* succeeding, and nothing was changed since
    prev_copied,        \* the track paths copied by earlier passes
    remote_tree,        \* the files below the remote destination (relative paths)
    \* ---- one sync pass (AudioSynchronizer.synchronize and its overrides)
    ypc,                \* position of the pass
    playlists,          \* the playlists rendered at lines 612-625: [name, content]
    listed,             \* whether ls_remote was invoked
    remote_files,       \* the set built by traverse_remote
    local_map,          \* r_path -> track
    local_keys,         \* the keys of local_map in insertion order
    copy_i,             \* iterations of the COPY loop done
    del_done,           \* remote files the DELETE loop has visited
    include_list,       \* rsync: the lines of the include-from file
    calls,              \* transport operations invoked, in order
    commands,           \* rsync: the command lines run, in order
    returncode,         \* rsync: exit code of the batch run (-1: not run)
    playlist_runs,      \* invocations of put_playlist_file
    sync_error,         \* the exception that left run_sync ("none" if none)
    completed,          \* sync_task has broadcast "Sync complete"
    tasks,              \* the background tasks added by POST /api/scan and /api/sync
    loop_ready,         \* the callbacks scheduled on the event loop, in order
    channel,            \* messages handed to manager.broadcast, not yet sent
    delivered,          \* messages sent to the observers, in order
    response,           \* the answer to the last PUT /api/playlists/{id}/tracks
    \* ---- the directory walk of _scan_filesystem, one directory at a time
    links,              \* directory -> the directory its symbolic link "l" points to
    has_audio,          \* directory -> whether it holds an audio file
    walk_stack,         \* directories os.walk has still to list, next one first
    walk_found,         \* the directories whose file is in the results
    wpc                 \* position of the walk

walkVars == <<fs, scan_paths, exclude_dirs, target_exts>>
reportVars == <<progress_log, last_progress, scan_log, commits>>
passVars == <<spc, files_to_process, processed_files, existing_tracks, new_tracks,
              files_scanned_set, added_count, updated_count, missing_count, reportVars>>
histVars == <<start_catalog, written, extracted, clean_since, pass_clean>>
scanVars == <<walkVars, catalog, now, passVars, histVars, changes>>
earlierVars == <<sync_passes, prev_clean, prev_copied>>
syncInVars == <<tracks, db_playlists, deleted_ids, sync_mode, sync_exts, rsync_paths_set,
                rsync_settings, key_file_exists, ftp_up, dest_exists, earlierVars>>
syncPassVars == <<ypc, playlists, listed, remote_files, local_map, local_keys, copy_i,
                  del_done, include_list, calls, commands, returncode, playlist_runs,
                  sync_error, completed>>
syncVars == <<syncInVars, remote_tree, syncPassVars>>
taskVars == <<tasks, loop_ready, channel, delivered>>
linkVars == <<links, has_audio, walk_stack, walk_found, wpc>>
httpVars == <<taskVars, response, linkVars>>

-----------------------------------------------------------------------------
(* Bounds of the model *)

MaxRoots == 2       \* length of the scan_paths list
MaxScans == 3       \* scan passes per behaviour (the clock stops there)
MaxVersion == 2     \* how often a file's content is rewritten
MaxChanges == 3     \* changes of disk, settings and flags per behaviour

-----------------------------------------------------------------------------
(* Path strings *)

SEP == "/"
BSL == "\\"

\* str.rstrip(os.sep)
RECURSIVE rstrip_sep(_)
rstrip_sep(p) ==
    IF p # <<>> /\ p[Len(p)] = SEP THEN rstrip_sep(SubSeq(p, 1, Len(p) - 1)) ELSE p

\* index of the last separator, 0 when there is none (str.rfind(sep) + 1)
RECURSIVE rfind_sep(_)
rfind_sep(p) ==
    IF p = <<>> THEN 0
    ELSE IF p[Len(p)] = SEP THEN Len(p)
    ELSE rfind_sep(SubSeq(p, 1, Len(p) - 1))

AllSeps(p) == \A i \in 1..Len(p) : p[i] = SEP

\* posixpath.dirname
dirname(p) ==
    LET head == SubSeq(p, 1, rfind_sep(p))
    IN  IF head # <<>> /\ ~AllSeps(head) THEN rstrip_sep(head) ELSE head

\* posixpath.basename
basename(p) == SubSeq(p, rfind_sep(p) + 1, Len(p))

\* posixpath.join(a, b)
join(a, b) ==
    IF b # <<>> /\ b[1] = SEP THEN b
    ELSE IF a = <<>> \/ a[Len(a)] = SEP THEN a \o b
    ELSE a \o <<SEP>> \o b

\* str.startswith
startswith(p, q) == Len(q) <= Len(p) /\ SubSeq(p, 1, Len(q)) = q

\* the components a path string names (what the kernel resolves)
RECURSIVE components(_)
components(p) ==
    IF p = <<>> THEN <<>>
    ELSE IF p[1] = SEP THEN components(Tail(p))
    ELSE <<p[1]>> \o components(Tail(p))

\* the absolute path string of a component sequence
RECURSIVE abspath(_)
abspath(c) == IF c = <<>> THEN <<>> ELSE <<SEP, c[1]>> \o abspath(Tail(c))

-----------------------------------------------------------------------------
(* File names and extensions *)

\* os.path.splitext(name)[1] of the file names of the model
ExtOf(name) ==
    CASE name = "f.mp3" -> ".mp3"
      [] name = "h.mp3" -> ".mp3"
      [] name = "k.mp3" -> ".mp3"
      [] name = "old.mp3" -> ".mp3"
      [] name = "g.MP3" -> ".MP3"
      [] name = "s.m4a" -> ".m4a"
      [] name = "n.txt" -> ".txt"
      [] name = "pl.m3u" -> ".m3u"
      [] name = "e.m3u" -> ".m3u"
      [] OTHER -> ""

\* os.path.splitext(name)[0]
StemOf(name) ==
    CASE name = "f.mp3" -> "f"
      [] name = "h.mp3" -> "h"
      [] name = "k.mp3" -> "k"
      [] name = "old.mp3" -> "old"
      [] name = "g.MP3" -> "g"
      [] name = "s.m4a" -> "s"
      [] name = "n.txt" -> "n"
      [] name = "pl.m3u" -> "pl"
      [] name = "e.m3u" -> "e"
      [] OTHER -> name

\* str.lower() on an extension
Lower(ext) == IF ext = ".MP3" THEN ".mp3" ELSE ext

\* the order in which a directory listing is produced
NameOrder == <<"A", "m", "x", "f.mp3", "g.MP3", "h.mp3", "k.mp3", "n.txt", "s.m4a">>

-----------------------------------------------------------------------------
(* The local file tree *)

F_f == <<"m", "A", "f.mp3">>
F_g == <<"m", "x", "g.MP3">>
F_h == <<"m", "A", "x", "h.mp3">>
F_k == <<"m", "x", "A", "k.mp3">>
F_n == <<"m", "A", "n.txt">>
FileUniverse == {F_f, F_g, F_h, F_k, F_n}

Absent == [mtime |-> 0, tag |-> "absent"]
\* a directory entry that cannot be stat()ed (a dangling link)
Broken == [mtime |-> 0, tag |-> "broken"]

Present(f) == fs[f].tag # "absent"

IsPrefix(d, f) == Len(d) <= Len(f) /\ SubSeq(f, 1, Len(d)) = d

\* os.path.exists(path), for a directory
DirExists(d) == \E f \in FileUniverse : Present(f) /\ Len(d) < Len(f) /\ IsPrefix(d, f)

\* the entries of directory d, as os.walk splits them
SubDirs(d) ==
    {f[Len(d) + 1] : f \in {g \in FileUniverse :
                              Present(g) /\ IsPrefix(d, g) /\ Len(g) > Len(d) + 1}}
FilesIn(d) ==
    {f[Len(d) + 1] : f \in {g \in FileUniverse :
                              Present(g) /\ IsPrefix(d, g) /\ Len(g) = Len(d) + 1}}

\* a set of names as a sequence in listing order
RECURSIVE Listed(_, _)
Listed(names, i) ==
    IF i > Len(NameOrder) THEN <<>>
    ELSE (IF NameOrder[i] \in names THEN <<NameOrder[i]>> ELSE <<>>) \o Listed(names, i + 1)

-----------------------------------------------------------------------------
(* ScannerService._scan_filesystem *)

\* os.path.exists(root_path)
PathExists(root_path) == DirExists(components(root_path))

\* mutant: the directory list is not pruned
PruneDirs_None(dirs, excludes) == dirs

\* line 220: dirs[:] = [d for d in dirs if d not in excludes]
PruneDirs(dirs, excludes) == dirs \ excludes

\* line 227: any(file.lower().endswith(ext) for ext in exts)
MatchesExt(file, exts) == Lower(ExtOf(file)) \in exts

\* mutant: the trailing separator of the root is not stripped
RelPath_NoStrip(root_path, full_path) ==
    LET base_dir == dirname(root_path)
        rel_path == IF startswith(full_path, base_dir)
                    THEN SubSeq(full_path, Len(base_dir) + 1, Len(full_path))
                    ELSE full_path
    IN  IF ~startswith(rel_path, <<SEP>>) THEN <<SEP>> \o rel_path ELSE rel_path

\* lines 231-240: the catalog-relative path of full_path under root_path
RelPath(root_path, full_path) ==
    LET root_clean == rstrip_sep(root_path)
        base_dir == dirname(root_clean)
        rel_path == IF startswith(full_path, base_dir)
                    THEN SubSeq(full_path, Len(base_dir) + 1, Len(full_path))
                    ELSE full_path
    IN  IF ~startswith(rel_path, <<SEP>>) THEN <<SEP>> \o rel_path ELSE rel_path

\* lines 225-247: the results contributed by the files of one walked directory
RECURSIVE FileResults(_, _, _, _)
FileResults(root_path, root, files, exts) ==
    IF files = <<>> THEN <<>>
    ELSE LET file == Head(files)
             full_path == join(root, <<file>>)
             st == fs[components(full_path)]
             one == IF MatchesExt(file, exts) /\ st.tag # "broken"
                    THEN <<[file_path |-> full_path,
                            rel_path |-> RelPath(root_path, full_path),
                            mtime |-> st.mtime]>>
                    ELSE <<>>
         IN  one \o FileResults(root_path, root, Tail(files), exts)

\* line 217: os.walk(root_path, followlinks=True), top-down, with the pruning of line 220
RECURSIVE WalkDir(_, _, _, _)
RECURSIVE WalkSubDirs(_, _, _, _, _)
WalkDir(root_path, root, exts, excludes) ==
    LET d == components(root)
        files == Listed(FilesIn(d), 1)
        dirs == Listed(PruneDirs(SubDirs(d), excludes), 1)
    IN  FileResults(root_path, root, files, exts)
        \o WalkSubDirs(root_path, root, dirs, exts, excludes)
WalkSubDirs(root_path, root, dirs, exts, excludes) ==
    IF dirs = <<>> THEN <<>>
    ELSE WalkDir(root_path, join(root, <<Head(dirs)>>), exts, excludes)
         \o WalkSubDirs(root_path, root, Tail(dirs), exts, excludes)

\* lines 203-250
RECURSIVE _scan_filesystem(_, _, _)
_scan_filesystem(paths, exts, excludes) ==
    IF paths = <<>> THEN <<>>
    ELSE LET root_path == Head(paths)
         IN  (IF ~PathExists(root_path) THEN <<>>
              ELSE WalkDir(root_path, root_path, exts, excludes))
             \o _scan_filesystem(Tail(paths), exts, excludes)

-----------------------------------------------------------------------------
(* Inputs of the walker *)

R_m == <<SEP, "m">>
R_ms == <<SEP, "m", SEP>>
R_mA == <<SEP, "m", SEP, "A">>
R_mAs == <<SEP, "m", SEP, "A", SEP>>
R_mx == <<SEP, "m", SEP, "x">>
R_q == <<SEP, "q">>
RootChoices == {R_m, R_ms, R_mA, R_mAs, R_mx, R_q}

RootLists == UNION {[1..n -> RootChoices] : n \in 0..MaxRoots}
ExcludeChoices == SUBSET {"x", "A"}
ExtChoices == {{".mp3", ".mp4", ".m4a"}, {".m4a"}}

\* the k-th content written to a file: its modification time and what its tags hold
Version(k) ==
    [mtime |-> k,
     tag |-> IF k = 1 THEN "nohdr" ELSE IF k = 2 THEN "T2" ELSE IF k = 3 THEN "corrupt" ELSE "T4"]

-----------------------------------------------------------------------------
(* ScannerService._extract_metadata and the Track row *)

None == "None"

\* datetime.datetime.fromtimestamp(mtime): the modification time at the
\* resolution the catalog stores
FromTimestamp(mtime) == mtime

\* lines 252-338: the fields extracted from the file at filepath
_extract_metadata(filepath) ==
    LET st == fs[components(filepath)]
        name == basename(filepath)[1]
        ext == Lower(ExtOf(name))
        data == [file_name |-> StemOf(name), title |-> None, codec |-> None, msg |-> None]
        unreadable == st.tag \in {"absent", "broken", "corrupt"}
    IN  IF ext = ".mp3"
        THEN IF unreadable THEN [data EXCEPT !.codec = "mp3", !.msg = "Error"]
             ELSE IF st.tag = "nohdr" THEN [data EXCEPT !.codec = "mp3", !.msg = "!"]
             ELSE [data EXCEPT !.codec = "mp3", !.title = st.tag]
        ELSE IF ext \in {".mp4", ".m4a"}
        THEN IF unreadable THEN [data EXCEPT !.codec = "mp4", !.msg = "Error"]
             ELSE IF st.tag = "nohdr" THEN [data EXCEPT !.codec = "mp4"]
             ELSE [data EXCEPT !.codec = "mp4", !.title = st.tag]
        ELSE data

MetaFields == {"file_name", "title", "codec", "msg"}

\* lines 156-164: Track(file_path=..., sync=False, missing=False, **meta)
NewTrack(file_path, rel_path, mtime_dt, meta) ==
    [file_path |-> file_path, relative_path |-> rel_path, last_modified |-> mtime_dt,
     added_date |-> now, sync |-> FALSE, missing |-> FALSE,
     file_name |-> meta.file_name, title |-> meta.title, codec |-> meta.codec,
     msg |-> meta.msg]

\* line 122
NeedsMetaUpdate(track_in_db, mtime_dt) == track_in_db.last_modified # mtime_dt

\* line 123
PathChanged(track_in_db, rel_path) == track_in_db.relative_path # rel_path

\* mutant: a changed relative path triggers extraction too
ReExtract_Always(needs_meta_update, path_changed) == needs_meta_update \/ path_changed

\* line 126: the condition under which metadata is extracted again
ReExtract(needs_meta_update, path_changed) == needs_meta_update

\* mutant: the stored modification time is not refreshed
ApplyMeta_KeepMtime(t, meta, mtime_dt) ==
    [t EXCEPT !.file_name = meta.file_name, !.title = meta.title, !.codec = meta.codec,
              !.msg = None]

\* lines 132-135: setattr for every key of meta, then last_modified and msg
ApplyMeta(t, meta, mtime_dt) ==
    [t EXCEPT !.file_name = meta.file_name, !.title = meta.title, !.codec = meta.codec,
              !.last_modified = mtime_dt, !.msg = None]

\* mutant: a file that is found again stays flagged
ClearMissing_Never(t) == t

\* lines 118-119
ClearMissing(t) == IF t.missing THEN [t EXCEPT !.missing = FALSE] ELSE t

\* lines 113-151: the row of an existing track after its walked file is processed
UpdatedTrack(t, rel_path, mtime_dt, filepath) ==
    LET t1 == ClearMissing(t)
        needs_meta_update == NeedsMetaUpdate(t1, mtime_dt)
        path_changed == PathChanged(t1, rel_path)
        t2 == IF (needs_meta_update \/ path_changed)
                 /\ ReExtract(needs_meta_update, path_changed)
              THEN ApplyMeta(t1, _extract_metadata(filepath), mtime_dt)
              ELSE t1
    IN  IF path_changed THEN [t2 EXCEPT !.relative_path = rel_path] ELSE t2

\* the assignments made by lines 113-151, as <<file_path, field>> pairs
UpdateWrites(t, rel_path, mtime_dt, filepath) ==
    LET needs_meta_update == NeedsMetaUpdate(t, mtime_dt)
        path_changed == PathChanged(t, rel_path)
    IN  (IF t.missing THEN {<<filepath, "missing">>} ELSE {})
        \cup (IF (needs_meta_update \/ path_changed)
                 /\ ReExtract(needs_meta_update, path_changed)
              THEN {<<filepath, k>> : k \in MetaFields \cup {"last_modified"}} ELSE {})
        \cup (IF path_changed THEN {<<filepath, "relative_path">>} ELSE {})

\* lines 181-187: which loaded rows the pass flags missing
ToFlagMissing(loaded, scanned) ==
    {p \in DOMAIN loaded : p \notin scanned /\ ~loaded[p].missing}

\* mutant: flagging also overwrites the status marker
FlagMissing_Msg(t) == [t EXCEPT !.missing = TRUE, !.msg = "Missing"]

\* line 187: track.missing = True
FlagMissing(t) == [t EXCEPT !.missing = TRUE]

\* Track.file_path is unique (models.py line 20): the flush at commit fails
\* when two pending rows carry the same file_path
CommitFails(pending) ==
    \E i, j \in 1..Len(pending) : i < j /\ pending[i].file_path = pending[j].file_path

\* the columns of a Track row (models.py lines 16-38, those the model carries)
TrackFields ==
    {"file_path", "relative_path", "last_modified", "added_date", "sync", "missing",
     "file_name", "title", "codec", "msg"}

\* mutant: the flush writes every column of a row that was touched in the pass
Committed_WholeRows(stored, loaded, pending, assigned) ==
    [p \in DOMAIN stored \cup {pending[i].file_path : i \in 1..Len(pending)} |->
        IF p \in DOMAIN stored
        THEN IF p \in DOMAIN loaded /\ \E k \in TrackFields : <<p, k>> \in assigned
             THEN loaded[p]
             ELSE stored[p]
        ELSE pending[CHOOSE i \in 1..Len(pending) : pending[i].file_path = p]]

\* line 197, db.commit(): the flush updates, of each loaded row, the columns that
\* were assigned in the pass, and inserts the pending rows
Committed(stored, loaded, pending, assigned) ==
    [p \in DOMAIN stored \cup {pending[i].file_path : i \in 1..Len(pending)} |->
        IF p \in DOMAIN stored
        THEN [k \in TrackFields |->
                 IF p \in DOMAIN loaded /\ <<p, k>> \in assigned THEN loaded[p][k]
                 ELSE stored[p][k]]
        ELSE pending[CHOOSE i \in 1..Len(pending) : pending[i].file_path = p]]

\* mutant: the session writes through after every step
Stored_WriteThrough(stored, loaded, pending, assigned) ==
    IF CommitFails(pending) THEN stored ELSE Committed(stored, loaded, pending, assigned)

\* lines 107-192: assignments and db.add stay in the session; no statement is
\* executed between the load at line 99 and the commit at line 197, so nothing is
\* flushed to the tracks table
Stored(stored, loaded, pending, assigned) == stored

\* mutant: an empty root list is walked like any other
NoScanPaths_Never(paths) == FALSE

\* line 77: if not scan_paths
NoScanPaths(paths) == paths = <<>>

\* line 336-337: the status marker of a failed extraction
ExtractionFailed(meta) == meta.msg # None

\* no callback has been invoked
NoReports == progress_log = <<>> /\ last_progress = 0 /\ scan_log = <<>> /\ commits = 0

\* a line handed to log_callback: its kind, the file it names, the counts it reports
LogLine(kind, path, counts) == [kind |-> kind, path |-> path, counts |-> counts]

\* lines 137, 148 and 167: the line logged for one walked file, if any
FileLogLines(known, needs_meta_update, path_changed, file_path) ==
    IF ~known THEN <<LogLine("New file added", file_path, <<>>)>>
    ELSE IF needs_meta_update THEN <<LogLine("File updated (meta)", file_path, <<>>)>>
    ELSE IF path_changed THEN <<LogLine("File updated (path)", file_path, <<>>)>>
    ELSE <<>>

\* line 174: int((processed_files / total_files) * 100)
Percent(processed, total) == (processed * 100) \div total

\* mutant: every file's percentage is reported
Reportable_Always(current_progress, last) == TRUE

\* line 175
Reportable(current_progress, last) ==
    current_progress >= last + 5 \/ current_progress = 100

\* lines 194-195: the closing report
FinalProgress(reported, last) == IF last < 100 THEN Append(reported, 100) ELSE reported

\* lines 181-192: the lines logged for the rows flagged missing, in the order given
RECURSIVE MissingLogLines(_)
MissingLogLines(paths) ==
    IF paths = <<>> THEN <<>>
    ELSE <<LogLine("File missing", Head(paths), <<>>)>> \o MissingLogLines(Tail(paths))

\* the orders in which a set of paths can be iterated
Orders(S) ==
    {q \in [1..Cardinality(S) -> S] : \A a, b \in 1..Cardinality(S) : a # b => q[a] # q[b]}

\* no walk is under way and the tree holds no symbolic link
WalkIdle ==
    /\ links = [d \in {"x", "q"} |-> "none"]
    /\ has_audio = [d \in {"m", "A", "x", "q"} |-> FALSE]
    /\ walk_stack = <<>>
    /\ walk_found = {}
    /\ wpc = "idle"

\* no request was made
NoTasks ==
    /\ tasks = <<>>
    /\ loop_ready = <<>>
    /\ channel = <<>>
    /\ delivered = <<>>
    /\ response = [status |-> 0, playlist_id |-> 0, track_ids |-> <<>>]

HttpIdle == WalkIdle /\ NoTasks

\* no rsync setting is stored
NoRsyncSettings == [host |-> "", user |-> "", use_key |-> "0", key_path |-> "", pass |-> ""]

\* no sync pass: the settings and the variables of a pass at rest
SyncRest ==
    /\ deleted_ids = {}
    /\ playlists = <<>>
    /\ sync_passes = 0
    /\ prev_clean = FALSE
    /\ prev_copied = {}
    /\ sync_mode = "adb"
    /\ sync_exts = {".mp3", ".mp4", ".m4a"}
    /\ rsync_paths_set = TRUE
    /\ rsync_settings = NoRsyncSettings
    /\ key_file_exists = FALSE
    /\ commands = <<>>
    /\ ftp_up = TRUE
    /\ dest_exists = TRUE
    /\ remote_tree = {}
    /\ ypc = "idle"
    /\ listed = FALSE
    /\ returncode = -1
    /\ playlist_runs = 0
    /\ sync_error = "none"
    /\ completed = FALSE
    /\ remote_files = {}
    /\ local_map = <<>>
    /\ local_keys = <<>>
    /\ copy_i = 0
    /\ del_done = {}
    /\ include_list = {}
    /\ calls = <<>>

\* no sync pass and empty tables
SyncIdle == tracks = <<>> /\ db_playlists = <<>> /\ SyncRest

-----------------------------------------------------------------------------
(* ScannerService.run_scan, one action per step of the pass *)

\* lines 32-105: load the settings, walk the roots, load the tracks table
ScanStart ==
    /\ spc = "idle"
    /\ now < MaxScans
    /\ now' = now + 1
    /\ start_catalog' = catalog
    /\ written' = {}
    /\ extracted' = {}
    /\ pass_clean' = clean_since
    /\ new_tracks' = <<>>
    /\ files_scanned_set' = {}
    /\ processed_files' = 0
    /\ added_count' = 0
    /\ updated_count' = 0
    /\ missing_count' = 0
    /\ progress_log' = <<>>
    /\ last_progress' = 0
    /\ commits' = 0
    /\ scan_log' = <<LogLine("Scan started", <<>>, <<>>)>>              \* line 35
                    \o (IF NoScanPaths(scan_paths)
                        THEN <<LogLine("No scan paths configured.", <<>>, <<>>)>>
                        ELSE <<>>)
    /\ IF NoScanPaths(scan_paths)
       THEN /\ spc' = "no_paths"                      \* lines 77-82
            /\ files_to_process' = <<>>
            /\ existing_tracks' = <<>>
       ELSE /\ files_to_process' = _scan_filesystem(scan_paths, target_exts, exclude_dirs)
            /\ existing_tracks' = catalog
            /\ spc' = "files"
    /\ UNCHANGED <<walkVars, catalog, clean_since, changes, syncVars, httpVars>>

\* lines 107-177: one iteration of the loop over the walked files
ScanFile ==
    /\ spc = "files"
    /\ processed_files < Len(files_to_process)
    /\ LET item == files_to_process[processed_files + 1]
           file_path == item.file_path
           mtime_dt == FromTimestamp(item.mtime)
           known == file_path \in DOMAIN existing_tracks
           current_progress == Percent(processed_files + 1, Len(files_to_process))
       IN  /\ files_scanned_set' = files_scanned_set \cup {file_path}
           /\ scan_log' = scan_log \o
                 FileLogLines(known,
                    known /\ NeedsMetaUpdate(ClearMissing(existing_tracks[file_path]), mtime_dt),
                    known /\ PathChanged(existing_tracks[file_path], item.rel_path),
                    file_path)
           /\ IF Reportable(current_progress, last_progress)
              THEN /\ progress_log' = Append(progress_log, current_progress)
                   /\ last_progress' = current_progress
              ELSE UNCHANGED <<progress_log, last_progress>>
           /\ IF file_path \in DOMAIN existing_tracks
              THEN LET t == existing_tracks[file_path]
                       changed == NeedsMetaUpdate(t, mtime_dt) \/ PathChanged(t, item.rel_path)
                   IN  /\ existing_tracks' =
                             [existing_tracks EXCEPT ![file_path] =
                                 UpdatedTrack(t, item.rel_path, mtime_dt, file_path)]
                       /\ written' = written
                             \cup UpdateWrites(t, item.rel_path, mtime_dt, file_path)
                       /\ extracted' =
                             IF changed /\ ReExtract(NeedsMetaUpdate(t, mtime_dt),
                                                     PathChanged(t, item.rel_path))
                             THEN extracted \cup {file_path} ELSE extracted
                       /\ updated_count' = IF changed THEN updated_count + 1
                                           ELSE updated_count
                       /\ UNCHANGED <<new_tracks, added_count>>
              ELSE /\ new_tracks' = Append(new_tracks,
                         NewTrack(file_path, item.rel_path, mtime_dt,
                                  _extract_metadata(file_path)))
                   /\ extracted' = extracted \cup {file_path}
                   /\ added_count' = added_count + 1
                   /\ UNCHANGED <<existing_tracks, written, updated_count>>
    /\ processed_files' = processed_files + 1
    /\ catalog' = Stored(catalog, existing_tracks', new_tracks', written')
    /\ UNCHANGED <<walkVars, now, spc, files_to_process, missing_count, commits,
                   start_catalog, clean_since, pass_clean, changes, syncVars, httpVars>>

\* lines 179-192: flag the loaded rows whose file was not walked
ScanMarkMissing ==
    /\ spc = "files"
    /\ processed_files = Len(files_to_process)
    /\ LET gone == ToFlagMissing(existing_tracks, files_scanned_set)
       IN  /\ existing_tracks' =
                 [p \in DOMAIN existing_tracks |->
                     IF p \in gone THEN FlagMissing(existing_tracks[p])
                     ELSE existing_tracks[p]]
           /\ written' = written \cup
                 UNION {{<<p, k>> : k \in {f \in TrackFields :
                                     FlagMissing(existing_tracks[p])[f] # existing_tracks[p][f]}}
                        : p \in gone}
           /\ missing_count' = Cardinality(gone)
           /\ \E order \in Orders(gone) : scan_log' = scan_log \o MissingLogLines(order)
    /\ progress_log' = FinalProgress(progress_log, last_progress)
    /\ UNCHANGED last_progress
    /\ spc' = "commit"
    /\ catalog' = Stored(catalog, existing_tracks', new_tracks, written')
    /\ UNCHANGED <<walkVars, now, files_to_process, processed_files, new_tracks,
                   files_scanned_set, added_count, updated_count, commits,
                   start_catalog, extracted, clean_since, pass_clean, changes, syncVars, httpVars>>

\* lines 197-201: the single commit of the pass, then the summary line
ScanCommit ==
    /\ spc = "commit"
    /\ IF CommitFails(new_tracks)
       THEN /\ spc' = "failed"
            /\ UNCHANGED <<catalog, clean_since, scan_log, commits>>
       ELSE /\ spc' = "done"
            /\ commits' = commits + 1
            /\ catalog' = Committed(catalog, existing_tracks, new_tracks, written)
            /\ clean_since' = TRUE
            /\ scan_log' = Append(scan_log,
                  LogLine("Scan complete", <<>>,
                          <<added_count, updated_count, missing_count>>))
    /\ UNCHANGED <<walkVars, now, files_to_process, processed_files, existing_tracks,
                   new_tracks, files_scanned_set, added_count, updated_count,
                   missing_count, start_catalog, written, extracted, pass_clean, changes,
                   progress_log, last_progress, syncVars, httpVars>>

\* run_scan has returned (or raised); the next pass may be triggered
ScanReturn ==
    /\ spc \in {"done", "failed", "no_paths"}
    /\ spc' = "idle"
    /\ UNCHANGED <<walkVars, catalog, now, files_to_process, processed_files,
                   existing_tracks, new_tracks, files_scanned_set, added_count,
                   updated_count, missing_count, reportVars, histVars, changes, syncVars, httpVars>>

-----------------------------------------------------------------------------
(* The environment of the scanner, between passes *)

ScanFiles == {F_f, F_h}
ScanRootLists == {<<>>, <<R_mA>>, <<R_mAs>>, <<R_m>>, <<R_q>>, <<R_m, R_mA>>, <<R_mA, R_mA>>}

Change ==
    /\ spc = "idle"
    /\ changes < MaxChanges
    /\ changes' = changes + 1

envUnchanged == <<catalog, now, passVars, start_catalog, written, extracted, pass_clean,
                 syncVars, httpVars>>

\* a file is written again: new content, later modification time
TouchFile(f) ==
    /\ Change
    /\ Present(f) /\ fs[f].mtime < MaxVersion
    /\ fs' = [fs EXCEPT ![f] = Version(fs[f].mtime + 1)]
    /\ clean_since' = FALSE
    /\ UNCHANGED <<scan_paths, exclude_dirs, target_exts, envUnchanged>>

\* a file disappears (deleted, or its volume unmounted)
RemoveFile(f) ==
    /\ Change
    /\ Present(f)
    /\ fs' = [fs EXCEPT ![f] = Absent]
    /\ clean_since' = FALSE
    /\ UNCHANGED <<scan_paths, exclude_dirs, target_exts, envUnchanged>>

\* a file appears (again)
CreateFile(f, k) ==
    /\ Change
    /\ ~Present(f)
    /\ fs' = [fs EXCEPT ![f] = Version(k)]
    /\ clean_since' = FALSE
    /\ UNCHANGED <<scan_paths, exclude_dirs, target_exts, envUnchanged>>

\* PUT /api/settings: scan_paths
SetScanPaths(paths) ==
    /\ Change
    /\ paths # scan_paths
    /\ scan_paths' = paths
    /\ clean_since' = FALSE
    /\ UNCHANGED <<fs, exclude_dirs, target_exts, envUnchanged>>

\* PUT /api/tracks/{id}: the user sets the sync flag of a track
SetSync(p, b) ==
    /\ Change
    /\ p \in DOMAIN catalog
    /\ catalog[p].sync # b
    /\ catalog' = [catalog EXCEPT ![p].sync = b]
    /\ UNCHANGED <<walkVars, now, passVars, histVars, syncVars, httpVars>>

ScanInit ==
    /\ fs = [f \in FileUniverse |-> IF f \in ScanFiles THEN Version(1) ELSE Absent]
    /\ scan_paths \in ScanRootLists
    /\ exclude_dirs \in {{}, {"x"}}
    /\ changes = 0
    /\ target_exts = {".mp3", ".mp4", ".m4a"}
    /\ catalog = <<>>
    /\ now = 0
    /\ spc = "idle"
    /\ files_to_process = <<>>
    /\ processed_files = 0
    /\ existing_tracks = <<>>
    /\ new_tracks = <<>>
    /\ files_scanned_set = {}
    /\ added_count = 0
    /\ updated_count = 0
    /\ missing_count = 0
    /\ start_catalog = <<>>
    /\ written = {}
    /\ extracted = {}
    /\ clean_since = FALSE
    /\ pass_clean = FALSE
    /\ NoReports
    /\ HttpIdle
    /\ SyncIdle

ScanNext ==
    \/ ScanStart
    \/ ScanFile
    \/ ScanMarkMissing
    \/ ScanCommit
    \/ ScanReturn
    \/ \E f \in ScanFiles : TouchFile(f)
    \/ \E f \in ScanFiles : RemoveFile(f)
    \/ \E f \in ScanFiles, k \in 1..MaxVersion : CreateFile(f, k)
    \/ \E paths \in ScanRootLists : SetScanPaths(paths)
    \/ \E p \in DOMAIN catalog, b \in BOOLEAN : SetSync(p, b)

vars == <<scanVars, syncVars, httpVars>>

SpecScan == ScanInit /\ [][ScanNext]_vars

-----------------------------------------------------------------------------
(* The walker alone: _scan_filesystem applied to every bounded input *)

WalkInit ==
    /\ fs \in [FileUniverse -> {Absent, Version(1), Broken}]
    /\ fs[F_n] # Broken /\ fs[F_g] # Broken /\ fs[F_k] # Broken
    /\ scan_paths \in RootLists
    /\ exclude_dirs \in ExcludeChoices
    /\ target_exts \in ExtChoices
    /\ catalog = <<>>
    /\ now = 0
    /\ spc = "idle"
    /\ files_to_process = <<>>
    /\ processed_files = 0
    /\ existing_tracks = <<>>
    /\ new_tracks = <<>>
    /\ files_scanned_set = {}
    /\ added_count = 0
    /\ updated_count = 0
    /\ missing_count = 0
    /\ start_catalog = <<>>
    /\ written = {}
    /\ extracted = {}
    /\ clean_since = FALSE
    /\ pass_clean = FALSE
    /\ NoReports
    /\ HttpIdle
    /\ SyncIdle
    /\ changes = 0

\* lines 85-87: run_in_threadpool(self._scan_filesystem, scan_paths, target_exts, exclude_dirs)
Walk ==
    /\ spc = "idle"
    /\ files_to_process' = _scan_filesystem(scan_paths, target_exts, exclude_dirs)
    /\ spc' = "walked"
    /\ UNCHANGED <<walkVars, catalog, now, processed_files, existing_tracks, new_tracks,
                   files_scanned_set, added_count, updated_count, missing_count,
                   reportVars, histVars, changes, syncVars, httpVars>>

SpecWalk == WalkInit /\ [][Walk]_vars

-----------------------------------------------------------------------------
(* Claims about the walker *)

Results == {files_to_process[i] : i \in 1..Len(files_to_process)}
Roots == {scan_paths[i] : i \in 1..Len(scan_paths)}

\* <sep><basename(R)>/sub/f.mp3, from the components of R and of the file
ExpectedRel(rc, c) == <<SEP, rc[Len(rc)]>> \o abspath(SubSeq(c, Len(rc) + 1, Len(c)))

\* C7: every walked file's relative path is <sep><basename(R)>/<path below R> for a
\* configured root R (with or without trailing separator) that contains the file; it
\* begins with the separator.
C7_RelativePath ==
    spc = "walked" =>
        \A r \in Results :
            /\ r.rel_path[1] = SEP
            /\ \E R \in Roots :
                  /\ IsPrefix(components(R), components(r.file_path))
                  /\ r.rel_path = ExpectedRel(components(R), components(r.file_path))

\* the case of C7: a root with a trailing separator, a file in a subdirectory of it
C7_Witness ==
    /\ spc = "walked"
    /\ scan_paths = <<R_mAs>>
    /\ \E r \in Results :
          r.file_path = abspath(F_h) /\ r.rel_path = <<SEP, "A", SEP, "x", SEP, "h.mp3">>

\* the directories on the path of file c (all components but the file name)
DirsOn(c, from) == {c[i] : i \in from..(Len(c) - 1)}

\* C8 as claimed: no walked file has a directory with an excluded name anywhere on
\* its path.
C8_NoExcludedAnywhere ==
    spc = "walked" =>
        \A r \in Results : DirsOn(components(r.file_path), 1) \cap exclude_dirs = {}

\* C8 amended: every walked file lies under a configured root R such that no
\* directory strictly below R on the file's path has an excluded name (the root
\* itself and the directories above it are not matched against the exclude list).
C8_NoExcludedBelowRoot ==
    spc = "walked" =>
        \A r \in Results :
            \E R \in Roots :
                /\ IsPrefix(components(R), components(r.file_path))
                /\ DirsOn(components(r.file_path), Len(components(R)) + 1)
                       \cap exclude_dirs = {}

\* the case of C8: an excluded directory two levels below the root is pruned while
\* its sibling file is walked
C8_Witness ==
    /\ spc = "walked"
    /\ scan_paths = <<R_m>>
    /\ exclude_dirs = {"x"}
    /\ Present(F_h) /\ Present(F_k) /\ Present(F_g)
    /\ fs[F_f] = Version(1)
    /\ {r.file_path : r \in Results} = {abspath(F_f)}

-----------------------------------------------------------------------------
(* Claims about the scan pass *)

Walked == {files_to_process[i].file_path : i \in 1..Len(files_to_process)}

\* the walker's tuples for file_path p
ItemsOf(p) == {r \in Results : r.file_path = p}

\* the relative path of the last tuple the walker produced for p
LastRel(p) ==
    LET i == CHOOSE i \in 1..Len(files_to_process) :
                 /\ files_to_process[i].file_path = p
                 /\ \A j \in (i + 1)..Len(files_to_process) :
                        files_to_process[j].file_path # p
    IN  files_to_process[i].rel_path

NoMutation ==
    /\ written = {}
    /\ new_tracks = <<>>
    /\ catalog = start_catalog
    /\ added_count = 0 /\ updated_count = 0 /\ missing_count = 0

\* C1: a pass that follows a completed pass with the same settings and an unchanged
\* file tree inserts nothing, writes no field and counts Added 0, Updated 0, Missing 0.
C1_ScanIdempotent ==
    (spc = "done" /\ pass_clean) => NoMutation

\* C1 restricted to root lists under which no file is walked twice.
C1_IdempotentWhenWalkedOnce ==
    (spc = "done" /\ pass_clean /\ \A p \in Walked : Cardinality(ItemsOf(p)) = 1)
        => NoMutation

C6_MissingIffNotWalked ==
    spc = "done" =>
        /\ \A p \in DOMAIN catalog : catalog[p].missing <=> p \notin Walked
        /\ DOMAIN start_catalog \subseteq DOMAIN catalog

\* the case of C6: one entry newly flagged, one entry un-flagged by the same pass
C6_Witness ==
    /\ spc = "done"
    /\ \E p, q \in DOMAIN start_catalog :
          /\ ~start_catalog[p].missing /\ catalog[p].missing /\ p \notin Walked
          /\ start_catalog[q].missing /\ ~catalog[q].missing /\ q \in Walked

\* the fields C9 names as unchanged
SameButPath(t, u) ==
    /\ t.file_name = u.file_name /\ t.title = u.title /\ t.codec = u.codec
    /\ t.msg = u.msg /\ t.last_modified = u.last_modified
    /\ t.sync = u.sync /\ t.added_date = u.added_date

PathOnlyCase(p) ==
    /\ p \in DOMAIN start_catalog
    /\ \E r \in ItemsOf(p) :
          /\ FromTimestamp(r.mtime) = start_catalog[p].last_modified
          /\ r.rel_path # start_catalog[p].relative_path

\* C9: an entry whose file is walked with the stored modification time but another
\* relative path gets the new relative path; no metadata is extracted for the file
\* and display fields, status, last_modified, sync and creation time stay.
C9_PathOnlyUpdate ==
    spc = "done" =>
        \A p \in Walked :
            PathOnlyCase(p) =>
                /\ p \notin extracted
                /\ <<p, "relative_path">> \in written
                /\ catalog[p].relative_path = LastRel(p)
                /\ SameButPath(catalog[p], start_catalog[p])
                /\ \A k \in MetaFields \cup {"last_modified"} : <<p, k>> \notin written

\* the case of C9: the roots were reconfigured, the file itself is as it was
C9_Witness ==
    /\ spc = "done"
    /\ \E p \in Walked :
          /\ PathOnlyCase(p)
          /\ Cardinality(ItemsOf(p)) = 1
          /\ catalog[p].relative_path # start_catalog[p].relative_path
          /\ start_catalog[p].msg = "!"

MtimeChangedCase(p) ==
    /\ p \in DOMAIN start_catalog
    /\ \E r \in ItemsOf(p) : FromTimestamp(r.mtime) # start_catalog[p].last_modified

\* C10: an entry whose file is walked with another modification time than the stored
\* one has its metadata extracted again: the display fields are those extracted, the
\* status is cleared, last_modified is the observed time.
C10_MetaUpdate ==
    spc = "done" =>
        \A p \in Walked :
            MtimeChangedCase(p) =>
                /\ p \in extracted
                /\ catalog[p].title = _extract_metadata(p).title
                /\ catalog[p].codec = _extract_metadata(p).codec
                /\ catalog[p].file_name = _extract_metadata(p).file_name
                /\ catalog[p].msg = None
                /\ \A r \in ItemsOf(p) : catalog[p].last_modified = FromTimestamp(r.mtime)

\* the case of C10: an entry with an error status whose file was rewritten
C10_Witness ==
    /\ spc = "done"
    /\ \E p \in Walked :
          /\ MtimeChangedCase(p)
          /\ start_catalog[p].msg = "!" /\ start_catalog[p].title = None
          /\ catalog[p].msg = None /\ catalog[p].title = "T2"

\* C11: when a committed pass extracted metadata for a file and the extraction failed,
\* the file's entry is in the catalog and carries a status marker, for new entries and
\* for re-extracted ones.
C11_FailedExtractionMarked ==
    spc = "done" =>
        \A p \in extracted :
            ExtractionFailed(_extract_metadata(p))
                => p \in DOMAIN catalog /\ catalog[p].msg # None

\* C12: a scan pass never ends in a failure: whatever the roots and the files, run_scan
\* reaches its commit and the commit succeeds.
C12_ScanNeverFails == spc # "failed"

\* C13: a pass started with no scan roots returns early: it is at the early return,
\* the catalog is as it was, no row is assigned, added or flagged.
C13_NoRootsNoMutation ==
    (spc \notin {"idle"} /\ scan_paths = <<>>) =>
        /\ spc = "no_paths"
        /\ catalog = start_catalog
        /\ written = {} /\ new_tracks = <<>> /\ extracted = {}
        /\ added_count = 0 /\ updated_count = 0 /\ missing_count = 0

\* the case of C13: the roots were removed while the catalog holds a present entry,
\* which a walk of nothing would flag missing
C13_Witness ==
    /\ spc = "no_paths" /\ scan_paths = <<>>
    /\ \E p \in DOMAIN catalog : ~catalog[p].missing


-----------------------------------------------------------------------------
(* make_m3u8 and the playlists SyncService.run_sync renders *)

\* line 569: t.title if t.title else t.file_name, mutant without the fallback
M3uTitle_NoFallback(t) == t.title

\* line 569: title = t.title if t.title else t.file_name
M3uTitle(t) == IF t.title \notin {None, ""} THEN t.title ELSE t.file_name

\* str.replace("\\", "/")
RECURSIVE to_slashes(_)
to_slashes(p) ==
    IF p = <<>> THEN <<>>
    ELSE <<IF p[1] = BSL THEN SEP ELSE p[1]>> \o to_slashes(Tail(p))

\* lines 580-585: the path line of a track
M3uPath(relative_path) ==
    LET p == to_slashes(relative_path)
    IN  IF startswith(p, <<SEP>>) THEN SubSeq(p, Len(<<SEP>>) + 1, Len(p)) ELSE p

\* lines 565-588: the lines appended for the tracks ts
RECURSIVE M3uBlocks(_)
M3uBlocks(ts) ==
    IF ts = <<>> THEN <<>>
    ELSE LET t == Head(ts)
         IN  (IF t.relative_path = <<>> THEN <<>>
              ELSE << <<"#EXTINF:-1,", M3uTitle(t)>>, M3uPath(t.relative_path), <<>> >>)
             \o M3uBlocks(Tail(ts))

\* lines 559-589: the text of a playlist as its sequence of lines, each a token
\* sequence ("#EXTM3U\n\n" is the header line and an empty line)
make_m3u8(ts) == << <<"#EXTM3U">>, <<>> >> \o M3uBlocks(ts)

\* sorted(): pt goes before the first element whose key is not smaller
RECURSIVE insort(_, _)
insort(pt, s) ==
    IF s = <<>> THEN <<pt>>
    ELSE IF s[1].order >= pt.order THEN <<pt>> \o s
    ELSE <<s[1]>> \o insort(pt, Tail(s))

\* line 620: sorted(pl.tracks, key=lambda pt: pt.order), a stable sort
RECURSIVE sorted_pt(_)
sorted_pt(pts) ==
    IF pts = <<>> THEN <<>> ELSE insort(Head(pts), sorted_pt(Tail(pts)))

\* the ids of the rows of the tracks table
TrackIds == (1..Len(tracks)) \ deleted_ids

\* PlaylistTrack.track: the Track row of the link, <<>> when there is none
TrackOf(pt) == IF pt.track_id \in TrackIds THEN <<tracks[pt.track_id]>> ELSE <<>>

\* line 621: pl_tracks = [pt.track for pt in sorted_pt if pt.track]
RECURSIVE pl_tracks(_)
pl_tracks(pts) ==
    IF pts = <<>> THEN <<>> ELSE TrackOf(Head(pts)) \o pl_tracks(Tail(pts))

\* mutant: a playlist is rendered whether or not it has tracks
HasTracks_Always(ts) == TRUE

\* line 623: if pl_tracks
HasTracks(ts) == ts # <<>>

\* lines 612-625: the playlists handed to the synchronizer
RECURSIVE RenderPlaylists(_)
RenderPlaylists(pls) ==
    IF pls = <<>> THEN <<>>
    ELSE LET ts == pl_tracks(sorted_pt(Head(pls).tracks))
         IN  (IF HasTracks(ts)
              THEN <<[name |-> Head(pls).name, content |-> make_m3u8(ts)]>>
              ELSE <<>>)
             \o RenderPlaylists(Tail(pls))

-----------------------------------------------------------------------------
(* AudioSynchronizer.synchronize: the generic pass of the ADB and FTP transports *)

\* how a transport operation ends: done; refused (ftplib.error_perm, a non-zero exit
\* of adb); any other error (ftplib.error_temp, a dropped connection, OSError)
Outcomes == {"ok", "refused", "error"}

\* which failures leave the transport method as an exception: FTP rm_remote and
\* mkdir_p_remote catch ftplib.error_perm only (lines 495, 508), FTP cp catches
\* Exception (line 480), the ADB methods do not inspect the exit code
Raises(mode, op, outcome) ==
    mode = "ftp" /\ op \in {"mkdir", "rm"} /\ outcome = "error"

\* mutant: a failed connection is logged and the pass goes on
FtpConnect_Swallowed(up) == "ok"

\* lines 431-440: connect and login at construction; a failure is logged and raised
FtpConnect(up) == IF up THEN "ok" ELSE "raise"

\* lines 114-116: the key of a track in local_map
NormPath(relative_path) ==
    LET r_path == to_slashes(relative_path)
    IN  IF startswith(r_path, <<SEP>>) THEN Tail(r_path) ELSE r_path

\* whether the remote directory rel_path exists
RemoteDirExists(rel_path) ==
    IF rel_path = <<>> THEN dest_exists
    ELSE \E f \in remote_tree :
            IsPrefix(components(rel_path), components(f))
            /\ Len(components(f)) > Len(components(rel_path))

\* ls_remote(rel_path): the (name, is_dir) pairs of a remote directory, or the
\* FileNotFoundError of lines 204-205 and 520-521
ls_remote(rel_path) ==
    LET rc == components(rel_path)
        below == {f \in remote_tree : IsPrefix(rc, components(f)) /\ Len(components(f)) > Len(rc)}
    IN  [found |-> RemoteDirExists(rel_path),
         items |-> {<<components(f)[Len(rc) + 1], Len(components(f)) > Len(rc) + 1>> : f \in below}]

\* mutant: the not-found signal is not caught
Listing_Uncaught(res) == [raised |-> ~res.found, items |-> res.items]

\* lines 88-91: try: items = self.ls_remote(rel_path) except FileNotFoundError: return
Listing(res) == [raised |-> FALSE, items |-> IF res.found THEN res.items ELSE {}]

\* lines 87-100: the files below rel_path, as paths relative to the destination
RECURSIVE traverse_remote(_)
traverse_remote(rel_path) ==
    UNION { LET child_path == IF rel_path # <<>> THEN rel_path \o <<SEP, item[1]>>
                              ELSE <<item[1]>>
            IN  IF item[2] THEN traverse_remote(child_path) ELSE {child_path}
          : item \in Listing(ls_remote(rel_path)).items }

\* mutant: entries flagged missing are left out of the local set
tracks_to_sync_Present == SelectSeq(tracks, LAMBDA t : t.sync /\ ~t.missing)

\* mutant: the sync flag is not consulted
tracks_to_sync_All == tracks

\* line 106 (and line 241): tracks_to_sync = [t for t in self.tracks if t.sync]
tracks_to_sync == SelectSeq(tracks, LAMBDA t : t.sync)

\* lines 109-118: local_map, the last track of each key winning
LocalMap(ts) ==
    [k \in {NormPath(ts[i].relative_path) : i \in 1..Len(ts)} |->
        ts[CHOOSE i \in 1..Len(ts) :
              /\ NormPath(ts[i].relative_path) = k
              /\ \A j \in (i + 1)..Len(ts) : NormPath(ts[j].relative_path) # k]]

\* the keys of local_map in the order a dict yields them (first insertion)
RECURSIVE LocalKeys(_, _)
LocalKeys(ts, seen) ==
    IF ts = <<>> THEN <<>>
    ELSE LET k == NormPath(Head(ts).relative_path)
         IN  IF k \in seen THEN LocalKeys(Tail(ts), seen)
             ELSE <<k>> \o LocalKeys(Tail(ts), seen \cup {k})

\* mutant: a listed path is copied again
ShouldCopy_Always(r_path, remote) == TRUE

\* line 124: whether the COPY loop copies the entry of key r_path
ShouldCopy(r_path, remote) == r_path \notin remote

\* mutant: files of catalog entries are kept whatever their sync flag
ShouldRemove_KeepCatalogued(r_file, lmap, exts) ==
    /\ r_file \notin DOMAIN lmap
    /\ r_file \notin {NormPath(tracks[i].relative_path) : i \in 1..Len(tracks)}

\* lines 137-138: whether the DELETE loop removes remote file r_file
ShouldRemove(r_file, lmap, exts) ==
    LET ext == ExtOf(basename(r_file)[1])
    IN  r_file \notin DOMAIN lmap

\* line 72-74: the target of a playlist file
PlaylistTarget(name) == <<SEP, name>>

\* name + ".m3u"
PlaylistFile(name) ==
    CASE name = "pl" -> "pl.m3u"
      [] name = "e" -> "e.m3u"
      [] OTHER -> name

\* lines 63-77: put_playlist_file, one cp per playlist
RECURSIVE PlaylistCalls(_)
PlaylistCalls(pls) ==
    IF pls = <<>> THEN <<>>
    ELSE <<[op |-> "cp", src |-> <<"tmp">>,
            dst |-> PlaylistTarget(PlaylistFile(Head(pls).name)), ok |-> TRUE]>>
         \o PlaylistCalls(Tail(pls))

\* what a pass leaves alone once it has started
passFixed == <<scanVars, httpVars, syncInVars, playlists, completed>>

\* lines 595-639 with 79-118: run_sync loads the tables and renders the playlists; the
\* ADB or FTP synchronizer is built, lists the remote tree and builds local_map
SyncStart ==
    /\ ypc = "idle"
    /\ sync_mode \in {"adb", "ftp"}
    /\ playlists' = RenderPlaylists(db_playlists)
    /\ copy_i' = 0
    /\ del_done' = {}
    /\ calls' = <<>>
    /\ IF sync_mode = "ftp" /\ FtpConnect(ftp_up) = "raise"
       THEN /\ ypc' = "raised"
            /\ sync_error' = "connect"
            /\ UNCHANGED <<listed, remote_files, local_map, local_keys>>
       ELSE /\ listed' = TRUE
            /\ IF Listing(ls_remote(<<>>)).raised
               THEN /\ ypc' = "raised"
                    /\ sync_error' = "not_found"
                    /\ UNCHANGED <<remote_files, local_map, local_keys>>
               ELSE /\ remote_files' = traverse_remote(<<>>)
                    /\ local_map' = LocalMap(tracks_to_sync)
                    /\ local_keys' = LocalKeys(tracks_to_sync, {})
                    /\ ypc' = "copy"
                    /\ UNCHANGED sync_error
    /\ UNCHANGED <<scanVars, httpVars, syncInVars, remote_tree, include_list, commands, returncode,
                   playlist_runs, completed>>

\* mutant: the file is copied before its directory is made
CopySteps_CopyFirst(mkdir, cp) == <<cp, mkdir>>

\* lines 127-128: self.mkdir_p_remote(target_dir), then self.cp(track.file_path, r_path)
CopySteps(mkdir, cp) == <<mkdir, cp>>

\* lines 123-132: one iteration of the COPY loop
SyncCopy ==
    /\ ypc = "copy"
    /\ copy_i < Len(local_keys)
    /\ LET r_path == local_keys[copy_i + 1]
           track == local_map[r_path]
       IN  IF ShouldCopy(r_path, remote_files)
           THEN \E made \in Outcomes, copied \in Outcomes :
                   LET mkdir == [op |-> "mkdir", src |-> <<>>, dst |-> dirname(r_path),
                                 ok |-> made = "ok"]
                       cp == [op |-> "cp", src |-> track.file_path, dst |-> r_path,
                              ok |-> copied = "ok"]
                   IN
                   IF Raises(sync_mode, "mkdir", made)
                   THEN /\ calls' = Append(calls, mkdir)
                        /\ ypc' = "raised"
                        /\ sync_error' = "transport"
                        /\ UNCHANGED <<remote_tree, copy_i>>
                   ELSE /\ calls' = calls \o CopySteps(mkdir, cp)
                        /\ remote_tree' = IF copied = "ok" THEN remote_tree \cup {r_path}
                                          ELSE remote_tree
                        /\ copy_i' = copy_i + 1
                        /\ UNCHANGED <<ypc, sync_error>>
           ELSE /\ copy_i' = copy_i + 1
                /\ UNCHANGED <<calls, remote_tree, ypc, sync_error>>
    /\ UNCHANGED <<passFixed, listed, remote_files, local_map, local_keys, del_done,
                   include_list, commands, returncode, playlist_runs>>

\* lines 136-140: one iteration of the DELETE loop (a set is iterated in any order)
SyncDelete ==
    /\ ypc = "copy"
    /\ copy_i = Len(local_keys)
    /\ \E r_file \in remote_files \ del_done :
          /\ del_done' = del_done \cup {r_file}
          /\ IF ShouldRemove(r_file, local_map, sync_exts)
             THEN \E removed \in Outcomes :
                     /\ calls' = Append(calls, [op |-> "rm", src |-> <<>>, dst |-> r_file,
                                                ok |-> removed = "ok"])
                     /\ remote_tree' = IF removed = "ok" THEN remote_tree \ {r_file}
                                       ELSE remote_tree
                     /\ IF Raises(sync_mode, "rm", removed)
                        THEN ypc' = "raised" /\ sync_error' = "transport"
                        ELSE UNCHANGED <<ypc, sync_error>>
             ELSE UNCHANGED <<calls, remote_tree, ypc, sync_error>>
    /\ UNCHANGED <<passFixed, listed, remote_files, local_map, local_keys, copy_i,
                   include_list, commands, returncode, playlist_runs>>

\* mutant: the playlists do not wait for the DELETE loop
LoopsDone_CopyOnly == copy_i = Len(local_keys)

\* lines 123-140: both loops of the generic pass have run to their end
LoopsDone == copy_i = Len(local_keys) /\ del_done = remote_files

\* line 235: use_key = self.settings.get("rsync_use_key", "0") == "1"
use_key(st) == st.use_key = "1"

\* lines 275-292: the authentication the settings select: "local" (no host), "key",
\* "key_missing" (lines 279-284), "password", "none" (lines 290-292)
rsync_auth ==
    IF rsync_settings.host = "" THEN "local"
    ELSE IF use_key(rsync_settings)
         THEN (IF rsync_settings.key_path = "" \/ ~key_file_exists THEN "key_missing"
               ELSE "key")
    ELSE IF rsync_settings.pass # "" THEN "password"
    ELSE "none"

\* lines 265-267 and 279-292: the configurations that make synchronize return early
RsyncReturnsEarly == ~rsync_paths_set \/ rsync_auth \in {"key_missing", "none"}

\* mutant: the password helper is used whenever a password is stored
UsesSshpass_AnyPassword(st) == st.host # "" /\ st.pass # ""

\* lines 275-289 and 361-369: cmd = ["sshpass", "-p", password]
UsesSshpass(st) == st.host # "" /\ ~use_key(st) /\ st.pass # ""

\* the arguments of a command line are token sequences
SshpassPrefix(st) ==
    IF UsesSshpass(st) THEN << <<"sshpass">>, <<"-p">>, <<st.pass>> >> ELSE <<>>

\* lines 308-312 and 377-381: -e "ssh -p <port> [-i <key_path>]"
RemoteShell(st) ==
    IF st.host = "" THEN <<>>
    ELSE << <<"-e">>,
            <<"ssh", "-p", "port">>
               \o (IF use_key(st) /\ st.key_path # "" THEN <<"-i", st.key_path>> ELSE <<>>) >>

\* lines 314-320 and 383-389: the destination
Remote(st) ==
    IF st.host = "" THEN <<"dest">>
    ELSE IF st.user # "" THEN <<st.user, "@", st.host, ":", "dest">>
    ELSE <<st.host, ":", "dest">>

\* lines 272-322: the command line of the batch run
RsyncCommand(st) ==
    SshpassPrefix(st)
    \o << <<"rsync">>, <<"-avz">>, <<"--delete-excluded">>, <<"--include-from">>,
          <<"include_path">>, <<"--exclude=*">>, <<"src_dir">> >>
    \o RemoteShell(st)
    \o <<Remote(st)>>

\* lines 348-392: the command line of cp, none when the key is not available
RsyncCpCommand(st, filepath_from, relative_path_to) ==
    IF st.host # "" /\ use_key(st) /\ (st.key_path = "" \/ ~key_file_exists)
    THEN <<>>
    ELSE <<SshpassPrefix(st)
           \o << <<"rsync">>, <<"-avz">> >>
           \o RemoteShell(st)
           \o <<filepath_from, Remote(st) \o relative_path_to>> >>

\* lines 63-77 with 348-404: the command lines put_playlist_file runs
RECURSIVE PlaylistCommands(_)
PlaylistCommands(pls) ==
    IF pls = <<>> THEN <<>>
    ELSE RsyncCpCommand(rsync_settings, <<"tmp">>,
                        PlaylistTarget(PlaylistFile(Head(pls).name)))
         \o PlaylistCommands(Tail(pls))

\* line 143 and line 345: self.put_playlist_file(); a failed cp is logged by the
\* transport and the next playlist is delivered
SyncPlaylists ==
    /\ \/ ypc = "copy" /\ LoopsDone
       \/ ypc = "playlist"
    /\ \E copied \in [1..Len(playlists) -> Outcomes] :
          /\ calls' = calls \o [i \in 1..Len(playlists) |->
                                   [PlaylistCalls(playlists)[i] EXCEPT !.ok = copied[i] = "ok"]]
          /\ remote_tree' = remote_tree
                \cup {<<PlaylistFile(playlists[i].name)>> :
                         i \in {j \in 1..Len(playlists) : copied[j] = "ok"}}
    /\ commands' = IF sync_mode = "rsync" THEN commands \o PlaylistCommands(playlists)
                   ELSE commands
    /\ playlist_runs' = playlist_runs + 1
    /\ ypc' = "done"
    /\ UNCHANGED <<passFixed, listed, remote_files, local_map, local_keys, copy_i,
                   del_done, include_list, returncode, sync_error>>

\* system.py lines 82-83: run_sync has returned, sync_task broadcasts "Sync complete"
SyncTaskComplete ==
    /\ ypc = "done"
    /\ ~completed
    /\ completed' = TRUE
    /\ UNCHANGED <<scanVars, httpVars, syncInVars, remote_tree, ypc, playlists, listed,
                   remote_files, local_map, local_keys, copy_i, del_done, include_list,
                   calls, commands, returncode, playlist_runs, sync_error>>

-----------------------------------------------------------------------------
(* RsyncSynchronizer.synchronize *)

\* str.split("/"): the parts between the separators
RECURSIVE split_sep(_, _)
split_sep(p, cur) ==
    IF p = <<>> THEN <<cur>>
    ELSE IF p[1] = SEP THEN <<cur>> \o split_sep(Tail(p), <<>>)
    ELSE split_sep(Tail(p), cur \o <<p[1]>>)

\* "/".join(parts)
RECURSIVE join_sep(_)
join_sep(parts) ==
    IF parts = <<>> THEN <<>>
    ELSE IF Len(parts) = 1 THEN parts[1]
    ELSE parts[1] \o <<SEP>> \o join_sep(Tail(parts))

\* mutant: only the path itself is listed
IncludeLines_NoAncestors(t) == {to_slashes(t.relative_path)}

\* lines 243-248: the include lines of one track
IncludeLines(t) ==
    LET parts == split_sep(to_slashes(t.relative_path), <<>>)
    IN  {join_sep(SubSeq(parts, 1, i)) \o <<SEP>> : i \in 1..(Len(parts) - 1)}
        \cup {to_slashes(t.relative_path)}

\* lines 240-248
IncludeList(ts) == UNION {IncludeLines(ts[i]) : i \in 1..Len(ts)}

\* lines 595-636 with 229-343: run_sync loads the tables and renders the playlists;
\* the include list, then one rsync run unless the configuration is incomplete;
\* rsync may exit with an error
RsyncSynchronize ==
    /\ ypc = "idle"
    /\ sync_mode = "rsync"
    /\ playlists' = RenderPlaylists(db_playlists)
    /\ include_list' = IncludeList(tracks_to_sync)
    /\ IF RsyncReturnsEarly
       THEN /\ ypc' = "done"
            /\ calls' = <<>>
            /\ commands' = <<>>
            /\ UNCHANGED <<remote_tree, returncode>>
       ELSE /\ ypc' = "playlist"
            /\ commands' = <<RsyncCommand(rsync_settings)>>
            /\ \/ /\ returncode' = 0
                  /\ calls' = <<[op |-> "rsync", src |-> <<>>, dst |-> <<>>, ok |-> TRUE]>>
                  /\ remote_tree' = {NormPath(tracks_to_sync[i].relative_path) :
                                        i \in 1..Len(tracks_to_sync)}
               \/ /\ returncode' = 1
                  /\ calls' = <<[op |-> "rsync", src |-> <<>>, dst |-> <<>>, ok |-> FALSE]>>
                  /\ UNCHANGED remote_tree
    /\ UNCHANGED <<scanVars, httpVars, syncInVars, listed, remote_files, local_map, local_keys,
                   copy_i, del_done, playlist_runs, sync_error, completed>>

\* lines 640-642: no synchronizer is built for another mode; the mode is logged and
\* _sync returns
SyncUnknownMode ==
    /\ ypc = "idle"
    /\ sync_mode \notin {"adb", "ftp", "rsync"}
    /\ playlists' = RenderPlaylists(db_playlists)
    /\ ypc' = "done"
    /\ UNCHANGED <<scanVars, httpVars, syncInVars, remote_tree, listed, remote_files, local_map,
                   local_keys, copy_i, del_done, include_list, calls, commands,
                   returncode, playlist_runs, sync_error, completed>>

-----------------------------------------------------------------------------
(* Inputs of the syncer *)

T_f(b) == [file_path |-> abspath(F_f), relative_path |-> <<SEP, "A", SEP, "f.mp3">>,
           file_name |-> "f", title |-> "T2", sync |-> b, missing |-> FALSE,
           last_modified |-> 1]
T_s(b) == [file_path |-> <<SEP, "m", SEP, "A", SEP, "s.m4a">>,
           relative_path |-> <<BSL, "A", BSL, "s.m4a">>, file_name |-> "s",
           title |-> None, sync |-> b, missing |-> FALSE, last_modified |-> 1]
T_d(b) == [file_path |-> <<SEP, "q", SEP, "A", SEP, "f.mp3">>,
           relative_path |-> <<SEP, "A", SEP, "f.mp3">>, file_name |-> "f",
           title |-> "", sync |-> b, missing |-> TRUE, last_modified |-> 1]
\* a row without a relative path
T_g == [file_path |-> abspath(F_g), relative_path |-> <<>>, file_name |-> "g",
        title |-> "Tg", sync |-> FALSE, missing |-> FALSE, last_modified |-> 1]

TrackLists ==
    {<<>>} \cup {<<T_f(a), T_s(b), T_d(c), T_g>> : a \in BOOLEAN, b \in BOOLEAN, c \in BOOLEAN}

\* a PlaylistTrack row and a Playlist row
PT(o, id) == [order |-> o, track_id |-> id]
PL(n, pts) == [name |-> n, tracks |-> pts]

PlaylistLists ==
    { <<>>,
      <<PL("pl", <<PT(2, 1), PT(1, 2)>>)>>,
      <<PL("e", <<>>), PL("pl", <<PT(1, 4), PT(1, 3), PT(1, 1)>>)>>,
      <<PL("pl", <<PT(1, 9)>>)>>,
      <<PL("e", <<PT(1, 4)>>)>> }

RsyncSettings ==
    [host : {"", "h"}, user : {"", "u"}, use_key : {"0", "1"}, key_path : {"", "k"},
     pass : {"", "pw"}]

RemoteUniverse == {<<"A", SEP, "f.mp3">>, <<"A", SEP, "x", SEP, "old.mp3">>, <<"n.txt">>}

\* the transports that run the generic pass
Generic == sync_mode \in {"adb", "ftp"}

\* no scan pass has run and nothing is catalogued
ScanQuiet ==
    /\ fs = [f \in FileUniverse |-> Absent]
    /\ scan_paths = <<>>
    /\ target_exts = {".mp3", ".mp4", ".m4a"}
    /\ catalog = <<>>
    /\ now = 0
    /\ spc = "idle"
    /\ files_to_process = <<>>
    /\ processed_files = 0
    /\ existing_tracks = <<>>
    /\ new_tracks = <<>>
    /\ files_scanned_set = {}
    /\ added_count = 0
    /\ updated_count = 0
    /\ missing_count = 0
    /\ start_catalog = <<>>
    /\ written = {}
    /\ extracted = {}
    /\ clean_since = FALSE
    /\ pass_clean = FALSE
    /\ NoReports
    /\ changes = 0

ScanIdle == ScanQuiet /\ exclude_dirs = {} /\ HttpIdle

SyncInit ==
    /\ ScanIdle
    /\ tracks \in TrackLists
    /\ db_playlists \in PlaylistLists
    /\ deleted_ids = {}
    /\ playlists = <<>>
    /\ sync_mode \in {"adb", "ftp", "rsync", "usb"}
    /\ sync_exts \in {{".mp3", ".mp4", ".m4a"}, {".mp3"}}
    /\ rsync_paths_set \in BOOLEAN
    /\ rsync_settings \in RsyncSettings
    /\ key_file_exists \in BOOLEAN
    /\ rsync_settings.key_path = "" => ~key_file_exists
    /\ sync_mode # "rsync" =>
          (rsync_paths_set /\ rsync_settings = NoRsyncSettings /\ ~key_file_exists)
    /\ sync_mode = "rsync" => sync_exts = {".mp3", ".mp4", ".m4a"}
    /\ commands = <<>>
    /\ sync_passes = 0
    /\ prev_clean = FALSE
    /\ prev_copied = {}
    /\ ftp_up \in BOOLEAN
    /\ sync_mode # "ftp" => ftp_up
    /\ dest_exists \in BOOLEAN
    /\ ~Generic => dest_exists
    /\ remote_tree \in SUBSET RemoteUniverse
    /\ sync_mode = "rsync" => remote_tree \in {{}, RemoteUniverse}
    /\ ~dest_exists => remote_tree = {}
    /\ ypc = "idle"
    /\ listed = FALSE
    /\ returncode = -1
    /\ playlist_runs = 0
    /\ sync_error = "none"
    /\ completed = FALSE
    /\ remote_files = {}
    /\ local_map = <<>>
    /\ local_keys = <<>>
    /\ copy_i = 0
    /\ del_done = {}
    /\ include_list = {}
    /\ calls = <<>>

SyncNext ==
    \/ SyncStart
    \/ SyncCopy
    \/ SyncDelete
    \/ SyncPlaylists
    \/ RsyncSynchronize
    \/ SyncUnknownMode
    \/ SyncTaskComplete

SpecSync == SyncInit /\ [][SyncNext]_vars

-----------------------------------------------------------------------------
(* Claims about the sync pass *)

Calls(op) == {calls[i] : i \in {j \in 1..Len(calls) : calls[j].op = op}}

RemoteExt(r_file) == ExtOf(basename(r_file)[1])

\* C3: the generic pass invokes rm_remote only on files whose extension is in the
\* target extension set.
C3_ForeignNeverRemoved ==
    \A c \in Calls("rm") : RemoteExt(c.dst) \in sync_exts

\* line is path itself or one of its ancestor directories, written with a trailing "/"
AncestorOrSelf(line, path) ==
    \/ line = path
    \/ line # <<>> /\ line[Len(line)] = SEP /\ startswith(path, line)

SyncedPaths == {to_slashes(tracks[i].relative_path) : i \in {j \in 1..Len(tracks) : tracks[j].sync}}

\* C4: cp is never invoked with the source file of a sync=false entry, and every line
\* of the rsync include list is the path, or an ancestor directory of the path, of a
\* sync=true entry; the path of a sync=false entry is listed only if a sync=true
\* entry has the same path.
C4_OnlySyncedCopied ==
    /\ \A i \in 1..Len(tracks) :
          ~tracks[i].sync =>
              /\ \A c \in Calls("cp") : c.src # tracks[i].file_path
              /\ to_slashes(tracks[i].relative_path) \in include_list
                    => to_slashes(tracks[i].relative_path) \in SyncedPaths
    /\ \A c \in Calls("cp") :
          c.src = <<"tmp">> \/ \E i \in 1..Len(tracks) : tracks[i].sync /\ tracks[i].file_path = c.src
    /\ \A line \in include_list : \E path \in SyncedPaths : AncestorOrSelf(line, path)

\* the case of C4: a sync=false entry whose path is absent remotely is passed over
\* while a sync=true entry is copied
C4_Witness ==
    /\ ypc = "done" /\ Generic
    /\ \E i, j \in 1..Len(tracks) :
          /\ ~tracks[i].sync /\ tracks[i].relative_path # <<>>
          /\ NormPath(tracks[i].relative_path) \notin remote_files
          /\ NormPath(tracks[i].relative_path) \notin DOMAIN local_map
          /\ tracks[j].sync
          /\ \E c \in Calls("cp") : c.src = tracks[j].file_path

\* C5: when the generic pass ends, rm_remote has been invoked on every listed remote
\* file with a target extension whose path is not the normalised path of a sync=true
\* entry, and the file is gone unless the transport failed to remove it.
C5_UnclaimedRemoved ==
    (ypc = "done" /\ Generic) =>
        \A r_file \in remote_files :
            (RemoteExt(r_file) \in sync_exts
             /\ r_file \notin {NormPath(p) : p \in SyncedPaths})
                => \E c \in Calls("rm") :
                       c.dst = r_file /\ (c.ok => r_file \notin remote_tree)

\* the case of C5: the remote file of a sync=false catalog entry is removed
C5_Witness ==
    /\ ypc = "done" /\ Generic
    /\ \E i \in 1..Len(tracks) :
          /\ ~tracks[i].sync
          /\ NormPath(tracks[i].relative_path) \in remote_files
          /\ \E c \in Calls("rm") : c.dst = NormPath(tracks[i].relative_path) /\ c.ok
          /\ NormPath(tracks[i].relative_path) \notin remote_tree

KnownMode == sync_mode \in {"adb", "rsync", "ftp"}

\* the pass has ended: run_sync returned or raised
Ended == ypc \in {"done", "raised"}

\* C14: with a sync mode other than adb, rsync and ftp the pass ends in an error:
\* run_sync does not return normally and "Sync complete" is not broadcast.
C14_UnknownModeFails ==
    (~KnownMode /\ ypc # "idle") => (ypc = "raised" /\ ~completed)

\* C15: in a generic pass that got its connection, no failure of a single copy,
\* directory creation or delete ends the pass: when the pass has ended both loops
\* have run to their end and the playlists were delivered.
C15_BestEffort ==
    (Generic /\ Ended /\ sync_error # "connect") =>
        /\ copy_i = Len(local_keys)
        /\ del_done = remote_files
        /\ playlist_runs = 1

\* C16: when the FTP server cannot be reached or refuses the login, the pass raises
\* out of run_sync before any listing, copy, delete or playlist delivery, and
\* "Sync complete" is not broadcast.
C16_FtpConnectFatal ==
    (sync_mode = "ftp" /\ ~ftp_up /\ ypc # "idle") =>
        /\ ypc = "raised" /\ sync_error = "connect"
        /\ ~listed /\ remote_files = {}
        /\ calls = <<>>
        /\ playlist_runs = 0
        /\ ~completed

\* the case of C16: the connection fails while there are tracks to copy and
\* playlists to deliver
C16_Witness ==
    /\ sync_mode = "ftp" /\ ~ftp_up /\ ypc = "raised"
    /\ tracks_to_sync # <<>>
    /\ playlists # <<>>

\* C17: when the destination directory does not exist, the listing's not-found signal
\* does not end the pass: no remote file is recorded, no remove is issued, and when
\* the pass completes a copy was issued to the path of every sync=true entry.
C17_NotFoundMeansEmpty ==
    (Generic /\ ~dest_exists /\ listed) =>
        /\ sync_error # "not_found"
        /\ remote_files = {}
        /\ Calls("rm") = {}
        /\ ypc = "done" =>
              \A i \in 1..Len(tracks) :
                  tracks[i].sync =>
                      \E c \in Calls("cp") :
                          /\ c.dst = NormPath(tracks[i].relative_path)
                          /\ c.src = local_map[c.dst].file_path

\* the case of C17: the destination is absent, the pass has completed and copied
C17_Witness ==
    /\ Generic /\ ~dest_exists /\ ypc = "done"
    /\ tracks_to_sync # <<>>
    /\ \E c \in Calls("cp") : c.src # <<"tmp">> /\ c.ok

\* the targets of the playlist copies, in the order of the calls
PlaylistCopies == SelectSeq(calls, LAMBDA c : c.op = "cp" /\ c.src = <<"tmp">>)

\* a playlist row that has a link to an existing track
Populated(pl) == \E i \in 1..Len(pl.tracks) : TrackOf(pl.tracks[i]) # <<>>

Reconciled ==
    IF Generic THEN copy_i = Len(local_keys) /\ del_done = remote_files /\ listed
    ELSE sync_mode = "rsync" /\ returncode # -1

Perms(n) == {f \in [1..n -> 1..n] : \A a, b \in 1..n : a # b => f[a] # f[b]}

\* the path line p is relative_path with forward slashes and without its leading separator
IsM3uPath(p, relative_path) ==
    LET lead == IF relative_path[1] \in {SEP, BSL} THEN 1 ELSE 0
    IN  /\ Len(p) = Len(relative_path) - lead
        /\ \A j \in 1..Len(p) :
              /\ p[j] # BSL
              /\ p[j] = (IF relative_path[j + lead] = BSL THEN SEP
                         ELSE relative_path[j + lead])
        /\ p # <<>> => p[1] # SEP

\* content is the header and one block per track of ts that has a relative path
IsRendering(content, ts) ==
    LET with_path == SelectSeq(ts, LAMBDA t : t.relative_path # <<>>)
    IN  /\ Len(content) = 2 + 3 * Len(with_path)
        /\ content[1] = <<"#EXTM3U">>
        /\ content[2] = <<>>
        /\ \A k \in 1..Len(with_path) :
              LET t == with_path[k]
              IN  /\ content[3 * k] =
                        <<"#EXTINF:-1,",
                          IF t.title = None \/ t.title = "" THEN t.file_name ELSE t.title>>
                  /\ IsM3uPath(content[3 * k + 1], t.relative_path)
                  /\ content[3 * k + 2] = <<>>

\* C20: every rendered playlist is the #EXTM3U header and, for the linked tracks in
\* ascending order value, one block per track that has a relative path: the info line
\* with the title (the file name when the title is empty), the relative path with
\* forward slashes and no leading separator, and an empty line.
C20_Rendering ==
    \A i \in 1..Len(playlists) :
        \E n \in 1..Len(db_playlists) :
            LET pts == db_playlists[n].tracks
            IN  /\ db_playlists[n].name = playlists[i].name
                /\ \E f \in Perms(Len(pts)) :
                      /\ \A a, b \in 1..Len(pts) : a < b => pts[f[a]].order <= pts[f[b]].order
                      /\ IsRendering(playlists[i].content,
                                     pl_tracks([k \in 1..Len(pts) |-> pts[f[k]]]))

\* the case of C20: the links are stored in descending order, one track has no title
\* and a backslash path
C20_Witness ==
    /\ Len(playlists) = 1
    /\ db_playlists[1].tracks = <<PT(2, 1), PT(1, 2)>>
    /\ playlists[1].content =
          << <<"#EXTM3U">>, <<>>,
             <<"#EXTINF:-1,", "s">>, <<"A", SEP, "s.m4a">>, <<>>,
             <<"#EXTINF:-1,", "T2">>, <<"A", SEP, "f.mp3">>, <<>> >>

-----------------------------------------------------------------------------
(* The rsync transport *)

\* a slash-separated path and every prefix of it that ends in a slash
PathAndAncestors(p) == {p} \cup {SubSeq(p, 1, k) : k \in {j \in 1..Len(p) : p[j] = SEP}}

\* the lines the include file must hold for the catalog
ExpectedIncludes ==
    UNION {PathAndAncestors(to_slashes(tracks[i].relative_path)) :
              i \in {j \in 1..Len(tracks) : tracks[j].sync}}

\* C21: the include-pattern file of an rsync pass holds exactly the relative path of
\* every sync=true entry and every ancestor directory of it, written with a trailing
\* slash up to the root "/", each once, and nothing that comes only from sync=false
\* entries
C21_IncludeFile ==
    (sync_mode = "rsync" /\ ypc # "idle") => include_list = ExpectedIncludes

\* an rsync pass over a catalog with a synced backslash path and an unsynced path
C21_Witness ==
    /\ sync_mode = "rsync" /\ ypc # "idle"
    /\ <<SEP>> \in include_list
    /\ <<SEP, "A", SEP>> \in include_list
    /\ <<SEP, "A", SEP, "s.m4a">> \in include_list
    /\ <<SEP, "A", SEP, "f.mp3">> \notin include_list
    /\ \E i \in 1..Len(tracks) :
          ~tracks[i].sync /\ tracks[i].relative_path = <<SEP, "A", SEP, "f.mp3">>

\* the arguments of a command line, as a set
Args(cmd) == {cmd[i] : i \in 1..Len(cmd)}

HasSshpass(cmd) == <<"sshpass">> \in Args(cmd)

\* some argument carries the ssh option -i
HasKeyOption(cmd) == \E a \in Args(cmd) : \E i \in 1..Len(a) : a[i] = "-i"

HasRemoteShell(cmd) == <<"-e">> \in Args(cmd)

\* the last argument of a command line
Destination(cmd) == cmd[Len(cmd)]

\* C22: no rsync command line, of the batch run or of a per-file cp, carries both the
\* sshpass password helper and an ssh -i key-file option; without a configured host
\* the destination is the plain local path and there is no -e option
C22_OneAuthMethod ==
    \A i \in 1..Len(commands) :
        /\ ~(HasSshpass(commands[i]) /\ HasKeyOption(commands[i]))
        /\ rsync_settings.host = "" =>
              /\ ~HasRemoteShell(commands[i])
              /\ ~HasSshpass(commands[i])
              /\ Destination(commands[i])[1] = "dest"
              /\ \A k \in 1..Len(Destination(commands[i])) :
                    Destination(commands[i])[k] \notin {":", "@"}

\* a pass with key authentication on and a password stored as well: the batch run and
\* a playlist copy both carry -i and neither carries sshpass
C22_Witness ==
    /\ sync_mode = "rsync" /\ ypc = "done"
    /\ rsync_settings.pass # "" /\ use_key(rsync_settings)
    /\ Len(commands) >= 2
    /\ \A i \in 1..Len(commands) :
          HasKeyOption(commands[i]) /\ ~HasSshpass(commands[i])

\* the positions of the batch runs among the command lines
BatchRuns == {i \in 1..Len(commands) : <<"--include-from">> \in Args(commands[i])}

\* C23: in rsync mode with a host but neither a password nor key authentication, the
\* pass runs rsync exactly once, with -e "ssh -p <port>" and host:dest (user@host:dest
\* with a user) as the last argument
C23_HostOnlyRunsRsync ==
    (/\ sync_mode = "rsync" /\ ypc = "done" /\ rsync_paths_set
     /\ rsync_settings.host # "" /\ ~use_key(rsync_settings) /\ rsync_settings.pass = "")
    => /\ Cardinality(BatchRuns) = 1
       /\ \A i \in BatchRuns :
             /\ \E k \in 1..(Len(commands[i]) - 1) :
                   commands[i][k] = <<"-e">> /\ commands[i][k + 1] = <<"ssh", "-p", "port">>
             /\ Destination(commands[i]) =
                   IF rsync_settings.user # ""
                   THEN <<rsync_settings.user, "@", rsync_settings.host, ":", "dest">>
                   ELSE <<rsync_settings.host, ":", "dest">>

-----------------------------------------------------------------------------
(* The scanner: status marker, progress and log *)

\* C24: after a pass, an entry catalogued before it whose file was not found still
\* exists and has msg "Missing"; an entry whose file was found does not have msg
\* "Missing"
C24_MissingMarker ==
    spc = "done" =>
        \A p \in DOMAIN start_catalog :
            /\ p \in DOMAIN catalog
            /\ p \notin files_scanned_set => catalog[p].msg = "Missing"
            /\ p \in files_scanned_set => catalog[p].msg # "Missing"

\* C25: a pass that walks its roots reports progress 0 first and 100 last, whatever
\* the number of walked files
C25_ProgressFromZeroToHundred ==
    spc = "done" =>
        /\ progress_log # <<>>
        /\ progress_log[1] = 0
        /\ progress_log[Len(progress_log)] = 100

\* the number of lines of the given kinds that name path p
LinesFor(kinds, p) ==
    Cardinality({i \in 1..Len(scan_log) : scan_log[i].kind \in kinds /\ scan_log[i].path = p})

\* the number of lines of the given kind
LinesOf(kind) == Cardinality({i \in 1..Len(scan_log) : scan_log[i].kind = kind})

\* the entries the pass inserted, changed in metadata or relative path, newly flagged
Inserted == DOMAIN catalog \ DOMAIN start_catalog
MetaOrPathChanged ==
    {p \in DOMAIN start_catalog :
        [catalog[p] EXCEPT !.missing = FALSE] # [start_catalog[p] EXCEPT !.missing = FALSE]}
NewlyMissing == {p \in DOMAIN start_catalog : ~start_catalog[p].missing /\ catalog[p].missing}

\* C26: a pass logs one start line, then exactly one line per entry it adds, updates
\* or newly flags missing, then one summary line whose Added, Updated and Missing
\* counts are the numbers of entries inserted, changed in metadata or relative path,
\* and newly flagged; the summary is there even when extractions failed
C26_LogAndSummary ==
    spc \in {"done", "failed"} =>
        /\ LinesOf("Scan started") = 1 /\ scan_log[1].kind = "Scan started"
        /\ LinesOf("Scan complete") = 1 /\ scan_log[Len(scan_log)].kind = "Scan complete"
        /\ \A p \in DOMAIN catalog \cup {scan_log[i].path : i \in 2..(Len(scan_log) - 1)} :
              /\ LinesFor({"New file added"}, p) = IF p \in Inserted THEN 1 ELSE 0
              /\ LinesFor({"File updated (meta)", "File updated (path)"}, p) =
                    IF p \in MetaOrPathChanged THEN 1 ELSE 0
              /\ LinesFor({"File missing"}, p) = IF p \in NewlyMissing THEN 1 ELSE 0
        /\ scan_log[Len(scan_log)].counts =
              <<Cardinality(Inserted), Cardinality(MetaOrPathChanged),
                Cardinality(NewlyMissing)>>

-----------------------------------------------------------------------------
(* The HTTP layer: POST /api/scan, POST /api/sync and their background tasks *)

MaxTasks == 2
MaxLogs == 2

\* a background task: what it runs, where it stands, how many log lines its pass has
\* emitted through the callback
Task(kind) == [kind |-> kind, pc |-> "accepted", emitted |-> 0]

\* the log lines emitted so far by all passes together
RECURSIVE Emitted(_)
Emitted(ts) == IF ts = <<>> THEN 0 ELSE Head(ts).emitted + Emitted(Tail(ts))

\* system.py lines 53, 57 and 80: asyncio.run_coroutine_threadsafe(coro, loop) puts the
\* start of the coroutine on the loop; callbacks of the loop run in the order in which
\* they were registered
Schedule(ready, item) == Append(ready, item)

\* a message handed to manager.broadcast by task i
Message(i, text) == [task |-> i, text |-> text]

\* manager.broadcast(message): the message joins the queue a single consumer drains
\* towards the observers
Broadcast(queue, message) == Append(queue, message)

\* mutant: "Sync complete" is broadcast while the pass is still running
RunSyncReturned_Early(t) == t.pc \in {"running", "returning", "returned"}

\* lines 82-83: await SyncService.run_sync(...) precedes the broadcast
RunSyncReturned(t) == t.pc = "returned"

httpFixed == <<scanVars, syncVars, response, linkVars>>

\* lines 86-89: the handler adds scan_task to the background tasks and answers
scan_files ==
    /\ Len(tasks) < MaxTasks
    /\ tasks' = Append(tasks, Task("scan"))
    /\ UNCHANGED <<loop_ready, channel, delivered, httpFixed>>

\* lines 92-95: the handler adds sync_task to the background tasks and answers
sync_files ==
    /\ Len(tasks) < MaxTasks
    /\ tasks' = Append(tasks, Task("sync"))
    /\ UNCHANGED <<loop_ready, channel, delivered, httpFixed>>

\* lines 37-59 and 74-82: the task starts its pass; nothing is consulted about
\* other tasks
TaskStart(i) ==
    /\ tasks[i].pc = "accepted"
    /\ tasks' = [tasks EXCEPT ![i].pc = "running"]
    /\ UNCHANGED <<loop_ready, channel, delivered, httpFixed>>

\* lines 55-57 and 78-80: the pass calls its log callback, which schedules the
\* broadcast and returns without waiting for it
TaskLog(i) ==
    /\ tasks[i].pc = "running"
    /\ Emitted(tasks) < MaxLogs
    /\ tasks' = [tasks EXCEPT ![i].emitted = @ + 1]
    /\ loop_ready' = Schedule(loop_ready, [op |-> "broadcast", task |-> i])
    /\ UNCHANGED <<channel, delivered, httpFixed>>

\* the pass ends: run_scan returns or raises in the loop (line 59); the worker thread
\* of run_sync ends, by returning or by raising, and the loop is told to resume the
\* awaiting task with that outcome (syncer.py line 636)
TaskPassEnds(i, outcome) ==
    /\ tasks[i].pc = "running"
    /\ IF tasks[i].kind = "scan"
       THEN /\ tasks' = [tasks EXCEPT ![i].pc = "finished"]
            /\ UNCHANGED loop_ready
       ELSE /\ tasks' = [tasks EXCEPT ![i].pc = "returning"]
            /\ loop_ready' = Schedule(loop_ready, [op |-> outcome, task |-> i])
    /\ UNCHANGED <<channel, delivered, httpFixed>>

\* the event loop runs the callback registered first
LoopStep ==
    /\ loop_ready # <<>>
    /\ LET item == Head(loop_ready)
       IN  IF item.op = "broadcast"
           THEN /\ channel' = Broadcast(channel, Message(item.task, "log"))
                /\ UNCHANGED tasks
           ELSE /\ tasks' = [tasks EXCEPT ![item.task].pc = item.op]
                /\ UNCHANGED channel
    /\ loop_ready' = Tail(loop_ready)
    /\ UNCHANGED <<delivered, httpFixed>>

\* line 83: await manager.broadcast("Sync complete")
SyncComplete(i) ==
    /\ tasks[i].kind = "sync"
    /\ tasks[i].pc \notin {"finished", "raised"}
    /\ RunSyncReturned(tasks[i])
    /\ channel' = Broadcast(channel, Message(i, "Sync complete"))
    /\ tasks' = [tasks EXCEPT ![i].pc = "finished"]
    /\ UNCHANGED <<loop_ready, delivered, httpFixed>>

\* the consumer sends the oldest queued message to the observers
Deliver ==
    /\ channel # <<>>
    /\ delivered' = Append(delivered, Head(channel))
    /\ channel' = Tail(channel)
    /\ UNCHANGED <<tasks, loop_ready, httpFixed>>

HttpInit == ScanIdle /\ SyncIdle

HttpNext ==
    \/ scan_files
    \/ sync_files
    \/ \E i \in 1..Len(tasks) : TaskStart(i)
    \/ \E i \in 1..Len(tasks) : TaskLog(i)
    \/ \E i \in 1..Len(tasks), outcome \in {"returned", "raised"} : TaskPassEnds(i, outcome)
    \/ LoopStep
    \/ \E i \in 1..Len(tasks) : SyncComplete(i)
    \/ Deliver

SpecHttp == HttpInit /\ [][HttpNext]_vars

\* the tasks whose pass is in flight
InFlight(kind) == {i \in 1..Len(tasks) : tasks[i].kind = kind /\ tasks[i].pc = "running"}

\* C27: passes triggered through POST /api/scan and POST /api/sync never overlap: no
\* second scan (or sync) pass starts while one is still in flight
C27_NoOverlap ==
    Cardinality(InFlight("scan")) <= 1 /\ Cardinality(InFlight("sync")) <= 1

\* the positions in delivered of a message of task i with the given text
Sent(i, text) == {k \in 1..Len(delivered) : delivered[k] = Message(i, text)}

\* C28: for a sync started by POST /api/sync, every log message its worker emitted
\* has been sent to the observers before "Sync complete" is, and "Sync complete" is
\* broadcast only after run_sync has returned
C28_LogsBeforeComplete ==
    \A i \in 1..Len(tasks) :
        /\ (\E m \in 1..Len(channel) : channel[m] = Message(i, "Sync complete"))
              => tasks[i].pc = "finished"
        /\ \A k \in Sent(i, "Sync complete") :
              /\ tasks[i].pc = "finished"
              /\ Cardinality({j \in Sent(i, "log") : j < k}) = tasks[i].emitted

\* a sync whose worker logged a line, both the line and "Sync complete" sent, while
\* another task's messages are in between or around
C28_Witness ==
    \E i \in 1..Len(tasks) :
        /\ tasks[i].kind = "sync" /\ tasks[i].emitted > 0
        /\ Sent(i, "Sync complete") # {}
        /\ Len(tasks) > 1

-----------------------------------------------------------------------------
(* PUT /api/playlists/{playlist_id}/tracks *)

\* the track id lists a request may carry: empty, known ids, a repeated id, unknown ids
TrackIdLists == {<<>>, <<1>>, <<2, 1>>, <<1, 2>>, <<3, 3>>, <<9>>, <<1, 9>>}

\* playlists.py lines 234-238: the playlist row is looked up by id
PlaylistExists(playlist_id) == playlist_id \in 1..Len(db_playlists)

\* lines 241-252: the ids of the request that no track row carries
invalid_ids(track_ids) ==
    IF track_ids = <<>> THEN {}
    ELSE {track_ids[k] : k \in 1..Len(track_ids)} \ TrackIds

\* mutant: the rows are numbered from one
NewPlaylistTracks_FromOne(track_ids) ==
    [k \in 1..Len(track_ids) |-> PT(k, track_ids[k])]

\* lines 263-265: PlaylistTrack(track_id=track_id, order=order) for enumerate(track_ids)
NewPlaylistTracks(track_ids) ==
    [k \in 1..Len(track_ids) |-> PT(k - 1, track_ids[k])]

Response(status, playlist_id, track_ids) ==
    [status |-> status, playlist_id |-> playlist_id, track_ids |-> track_ids]

\* lines 226-272
update_playlist_tracks(playlist_id, track_ids) ==
    /\ IF ~PlaylistExists(playlist_id)
       THEN /\ response' = Response(404, playlist_id, track_ids)
            /\ UNCHANGED db_playlists
       ELSE IF invalid_ids(track_ids) # {}
       THEN /\ response' = Response(400, playlist_id, track_ids)
            /\ UNCHANGED db_playlists
       ELSE /\ db_playlists' =
                  [db_playlists EXCEPT ![playlist_id].tracks = NewPlaylistTracks(track_ids)]
            /\ response' = Response(200, playlist_id, track_ids)
    /\ UNCHANGED <<scanVars, taskVars, linkVars, tracks, deleted_ids, sync_mode, sync_exts,
                   rsync_paths_set, rsync_settings, key_file_exists, ftp_up, dest_exists,
                   earlierVars, remote_tree, syncPassVars>>

PlaylistsInit ==
    /\ ScanIdle
    /\ SyncRest
    /\ tracks \in TrackLists
    /\ db_playlists \in PlaylistLists

PlaylistsNext ==
    \E playlist_id \in 1..3, track_ids \in TrackIdLists :
        update_playlist_tracks(playlist_id, track_ids)

SpecPlaylists == PlaylistsInit /\ [][PlaylistsNext]_vars

\* the request just answered asked for a playlist and for track ids that all exist
Acceptable(r) ==
    /\ r.playlist_id \in 1..Len(db_playlists)
    /\ \A k \in 1..Len(r.track_ids) : r.track_ids[k] \in 1..Len(tracks)

\* C29: the request either replaces the playlist's tracks by exactly the given ids in
\* the given order, numbered 0..n-1, or, when the playlist or one of the track ids
\* does not exist, fails with 404 or 400 and leaves every playlist as it was
C29_ReplaceOrReject ==
    [][LET r == response'
       IN  IF Acceptable(r)
           THEN /\ r.status = 200
                /\ Len(db_playlists') = Len(db_playlists)
                /\ Len(db_playlists'[r.playlist_id].tracks) = Len(r.track_ids)
                /\ \A k \in 1..Len(r.track_ids) :
                      /\ db_playlists'[r.playlist_id].tracks[k].order = k - 1
                      /\ db_playlists'[r.playlist_id].tracks[k].track_id = r.track_ids[k]
                /\ \A q \in 1..Len(db_playlists) :
                      /\ db_playlists'[q].name = db_playlists[q].name
                      /\ q # r.playlist_id => db_playlists'[q] = db_playlists[q]
           ELSE /\ r.status \in {404, 400}
                /\ r.status = 404 <=> r.playlist_id \notin 1..Len(db_playlists)
                /\ db_playlists' = db_playlists]_vars

\* a two-track request was accepted for a playlist and a request naming an unknown
\* track was then refused for the same playlist
C29_Witness ==
    /\ response.status = 400
    /\ response.playlist_id \in 1..Len(db_playlists)
    /\ db_playlists[response.playlist_id].tracks = <<PT(0, 2), PT(1, 1)>>

-----------------------------------------------------------------------------
(* The COPY loop of the generic pass *)

\* the positions of the cp calls that copy a track to r_path (playlist files are
\* copied from a temporary file)
TrackCopies(r_path) ==
    {k \in 1..Len(calls) :
        calls[k].op = "cp" /\ calls[k].src # <<"tmp">> /\ calls[k].dst = r_path}

\* the normalized paths of the sync=true entries
SyncedKeys == {NormPath(tracks[i].relative_path) : i \in {j \in 1..Len(tracks) : tracks[j].sync}}

\* C30: in the generic pass, every sync=true entry whose normalized path is absent
\* from the remote listing gets mkdir_p_remote on its parent directory and then cp,
\* and cp is invoked exactly once for such a path (and never for another path)
C30_MkdirThenCopyOnce ==
    Generic =>
        /\ \A k \in 1..Len(calls) :
              (calls[k].op = "cp" /\ calls[k].src # <<"tmp">>) =>
                  /\ k > 1
                  /\ calls[k - 1].op = "mkdir"
                  /\ calls[k - 1].dst = dirname(calls[k].dst)
                  /\ calls[k].dst \in SyncedKeys \ remote_files
        /\ \A r_path \in SyncedKeys : Cardinality(TrackCopies(r_path)) <= 1
        /\ (listed /\ copy_i = Len(local_keys)) =>
              \A r_path \in SyncedKeys \ remote_files : Cardinality(TrackCopies(r_path)) = 1

\* a finished pass that copied one synced entry after its mkdir and skipped another
\* that was listed remotely
C30_Witness ==
    /\ Generic /\ ypc = "done"
    /\ \E r1, r2 \in SyncedKeys :
          /\ r1 # r2
          /\ TrackCopies(r1) # {} /\ TrackCopies(r2) = {}
          /\ r2 \in remote_files

-----------------------------------------------------------------------------
(* Generic sync passes run one after another *)

MaxSyncs == 2

\* every transport operation of the pass succeeded
AllOk == \A k \in 1..Len(calls) : calls[k].ok

\* the track paths the pass copied
CopiedNow == {calls[k].dst : k \in {j \in 1..Len(calls) :
                 calls[j].op = "cp" /\ calls[j].src # <<"tmp">> /\ calls[j].ok}}

\* system.py line 82: run_sync has returned or raised; POST /api/sync may start the
\* next pass, which builds its synchronizer anew (syncer.py lines 627-637)
SyncReturn ==
    /\ ypc \in {"done", "raised"}
    /\ sync_passes + 1 < MaxSyncs
    /\ sync_passes' = sync_passes + 1
    /\ prev_clean' = (ypc = "done" /\ AllOk)
    /\ prev_copied' = prev_copied \cup CopiedNow
    /\ dest_exists' = (dest_exists \/ remote_tree # {})
    /\ ypc' = "idle"
    /\ playlists' = <<>>
    /\ listed' = FALSE
    /\ remote_files' = {}
    /\ local_map' = <<>>
    /\ local_keys' = <<>>
    /\ copy_i' = 0
    /\ del_done' = {}
    /\ include_list' = {}
    /\ calls' = <<>>
    /\ commands' = <<>>
    /\ returncode' = -1
    /\ playlist_runs' = 0
    /\ sync_error' = "none"
    /\ completed' = FALSE
    /\ UNCHANGED <<scanVars, httpVars, tracks, db_playlists, deleted_ids, sync_mode, sync_exts,
                   rsync_paths_set, rsync_settings, key_file_exists, ftp_up, remote_tree>>

\* the rows a scan between two passes may refresh
Refreshable == {1}

\* scanner.py line 134, between two sync passes: the file of a row was written again
\* and a scan stored its new modification time
TrackModified(i) ==
    /\ ypc = "idle"
    /\ sync_passes > 0
    /\ i \in 1..Len(tracks)
    /\ tracks[i].last_modified = 1
    /\ tracks' = [tracks EXCEPT ![i].last_modified = 2]
    /\ prev_clean' = FALSE
    /\ UNCHANGED <<scanVars, httpVars, db_playlists, deleted_ids, sync_mode, sync_exts,
                   rsync_paths_set,
                   rsync_settings, key_file_exists, ftp_up, dest_exists, sync_passes,
                   prev_copied, remote_tree, syncPassVars>>

\* the tables and settings of the repeated passes: ADB or FTP, the default
\* extensions, no playlist or one playlist with two tracks
ResyncInit ==
    /\ SyncInit
    /\ Generic
    /\ sync_exts = {".mp3", ".mp4", ".m4a"}
    /\ db_playlists \in {<<>>, <<PL("pl", <<PT(2, 1), PT(1, 2)>>)>>}

ResyncNext ==
    \/ SyncStart
    \/ SyncCopy
    \/ SyncDelete
    \/ SyncPlaylists
    \/ SyncReturn
    \/ \E i \in Refreshable : TrackModified(i)

SpecResync == ResyncInit /\ [][ResyncNext]_vars

\* C31: the generic pass decides copies by path presence only: a sync=true entry
\* whose normalized path is in the remote listing is not copied in that pass, also
\* when its modification time changed after an earlier pass copied it
C31_PresentNeverCopied ==
    Generic => \A r_path \in SyncedKeys \cap remote_files : TrackCopies(r_path) = {}

\* a later pass that listed a path copied earlier, whose row was refreshed since, and
\* ran to its end without copying it
C31_Witness ==
    /\ Generic /\ ypc = "done" /\ sync_passes > 0
    /\ \E i \in 1..Len(tracks) :
          /\ tracks[i].sync /\ tracks[i].last_modified = 2
          /\ NormPath(tracks[i].relative_path) \in prev_copied \cap remote_files
          /\ TrackCopies(NormPath(tracks[i].relative_path)) = {}

-----------------------------------------------------------------------------
(* The scanner: the commit of a pass *)

\* C32: a pass commits exactly once, after every walked file is processed and the
\* tombstones are set and before the summary line; a pass that fails before the commit
\* went through persists none of its inserts, updates or tombstones
C32_SingleCommit ==
    spc # "idle" =>
        /\ LinesOf("Scan complete") = commits
        /\ spc \in {"files", "commit", "failed", "no_paths"} =>
              commits = 0 /\ catalog = start_catalog
        /\ spc = "done" =>
              /\ commits = 1
              /\ processed_files = Len(files_to_process)
              /\ ToFlagMissing(existing_tracks, files_scanned_set) = {}
              /\ catalog = Committed(start_catalog, existing_tracks, new_tracks, written)

\* a pass that had assigned fields of loaded rows and added rows when its commit
\* failed: the catalog is as it was
C32_Witness ==
    /\ spc = "failed"
    /\ written # {} /\ new_tracks # <<>>
    /\ start_catalog # <<>>

-----------------------------------------------------------------------------
(* The walk over a tree with symbolic links, one directory at a time.
   scanner.py line 217 calls os.walk(root_path, followlinks=True); os.walk
   lists a directory, yields it and descends into every entry that is a
   directory, a symbolic link to a directory included; it keeps no record
   of the directories it has visited. *)

\* the directories: the root "m" holds "A", "A" holds "x"; "q" lies outside the root
LinkDirs == {"m", "A", "x", "q"}

\* the directories that may hold a symbolic link, named "l"
LinkSlots == {"x", "q"}

\* the real subdirectories of a directory, as [name, dir]
Subdirs(d) ==
    IF d = "m" THEN <<[name |-> "A", dir |-> "A"]>>
    ELSE IF d = "A" THEN <<[name |-> "x", dir |-> "x"]>>
    ELSE <<>>

\* os.walk, the scandir loop: the entries of d for which is_dir() holds, the
\* symbolic link "l" among them when it points to a directory
DirEntries(d) ==
    Subdirs(d) \o (IF d \in LinkSlots /\ links[d] # "none"
                     THEN <<[name |-> "l", dir |-> links[d]]>>
                     ELSE <<>>)

\* line 220: dirs[:] = [d for d in dirs if d not in excludes]
KeptDirs(d) == SelectSeq(DirEntries(d), LAMBDA e : e.name \notin exclude_dirs)

linksFixed == <<scanVars, syncVars, taskVars, response, links, has_audio>>

\* lines 207-217: the root exists and os.walk starts at it
WalkBegin ==
    /\ wpc = "idle"
    /\ wpc' = "walking"
    /\ walk_stack' = <<"m">>
    /\ walk_found' = {}
    /\ UNCHANGED linksFixed

\* lines 217-247: one iteration of the for loop over os.walk: the next directory
\* is listed, its audio file joins the results and its kept subdirectories are
\* walked before the directories that were pending
WalkStep ==
    /\ wpc = "walking"
    /\ walk_stack # <<>>
    /\ LET d == Head(walk_stack)
           below == [k \in 1..Len(KeptDirs(d)) |-> KeptDirs(d)[k].dir]
       IN  /\ walk_stack' = below \o Tail(walk_stack)
           /\ walk_found' = walk_found \cup (IF has_audio[d] THEN {d} ELSE {})
    /\ UNCHANGED <<wpc, linksFixed>>

\* lines 249-250: os.walk is exhausted and the results are returned
WalkReturn ==
    /\ wpc = "walking"
    /\ walk_stack = <<>>
    /\ wpc' = "returned"
    /\ UNCHANGED <<walk_stack, walk_found, linksFixed>>

LinksInit ==
    /\ ScanQuiet
    /\ SyncIdle
    /\ NoTasks
    /\ exclude_dirs \in {{}, {"x"}}
    /\ links \in [LinkSlots -> LinkDirs \cup {"none"}]
    /\ \A d \in LinkSlots : links[d] # d
    /\ has_audio \in [LinkDirs -> BOOLEAN]
    /\ ~has_audio["m"]
    /\ walk_stack = <<>>
    /\ walk_found = {}
    /\ wpc = "idle"

LinksNext == WalkBegin \/ WalkStep \/ WalkReturn

\* the walk runs to its end in a worker thread (asyncio.to_thread, line 76):
\* a step that stays possible is taken
SpecLinks == LinksInit /\ [][LinksNext]_vars /\ WF_vars(LinksNext)

\* the directories the walk can reach from d
RECURSIVE Reach(_, _)
Reach(seen, n) ==
    IF n = 0 THEN seen
    ELSE Reach(seen \cup UNION {{KeptDirs(d)[k].dir : k \in 1..Len(KeptDirs(d))} : d \in seen},
               n - 1)

Below(d) == Reach({KeptDirs(d)[k].dir : k \in 1..Len(KeptDirs(d))}, Cardinality(LinkDirs))

\* a chain of kept entries leads from a directory the walk reaches back to it
LinkCycle == \E d \in Reach({"m"}, Cardinality(LinkDirs)) : d \in Below(d)

C33_WalkTerminatesWithoutCycle == (~LinkCycle) => <>(wpc = "returned")

\* the transport calls of the pass that copy a track or remove a remote file
TrackCopyCalls == {k \in 1..Len(calls) : calls[k].op = "cp" /\ calls[k].src # <<"tmp">>}
RemoveCalls == {k \in 1..Len(calls) : calls[k].op = "rm"}

\* C34: a generic pass that follows a pass in which every transport operation
\* succeeded, with no catalog, playlist or remote change in between, copies no
\* track file and removes nothing
C34_SecondPassIdle ==
    (Generic /\ sync_passes > 0 /\ prev_clean /\ ypc = "done" /\ AllOk)
        => (TrackCopyCalls = {} /\ RemoveCalls = {})

\* C35: after a generic pass in which every transport operation succeeded, the
\* normalized relative path of every sync=true entry is a remote file, and no
\* remote file with a target extension is left whose path is not the normalized
\* relative path of a sync=true entry
C35_Converged ==
    (Generic /\ ypc = "done" /\ AllOk) =>
        /\ SyncedKeys \subseteq remote_tree
        /\ \A r_file \in remote_tree :
              RemoteExt(r_file) \in sync_exts => r_file \in SyncedKeys

\* a pass without a failed call that copied a missing synced file and removed a
\* remote audio file no synced entry claims
C35_Witness ==
    /\ Generic /\ ypc = "done" /\ AllOk
    /\ \E r_path \in SyncedKeys : TrackCopies(r_path) # {} /\ r_path \in remote_tree
    /\ \E k \in RemoveCalls :
          /\ RemoteExt(calls[k].dst) \in sync_exts
          /\ calls[k].dst \notin remote_tree

-----------------------------------------------------------------------------
(* The scanner with the track API answering requests during a pass *)

\* tracks.py lines 70-83 (and 58-67 for one id): PUT /api/tracks/{id} loads the
\* track in a session of its own, assigns sync and commits, while run_scan is
\* suspended at one of its awaits
SetSyncInFlight(p, b) ==
    /\ spc \notin {"idle", "done", "failed", "no_paths"}
    /\ changes < MaxChanges
    /\ changes' = changes + 1
    /\ p \in DOMAIN catalog
    /\ catalog[p].sync # b
    /\ catalog' = [catalog EXCEPT ![p].sync = b]
    /\ UNCHANGED <<walkVars, now, passVars, histVars, syncVars, httpVars>>

ScanSyncNext == ScanNext \/ \E p \in DOMAIN catalog, b \in BOOLEAN : SetSyncInFlight(p, b)

SpecScanSync == ScanInit /\ [][ScanSyncNext]_vars

\* C36: a scan pass never writes the sync flag of an existing entry: no step of
\* the pass, its commit included, changes the stored sync flag of an entry or
\* removes the entry, so a flag committed through the track API during the pass
\* is still in effect after the scan commits
C36_ScanKeepsSyncFlag ==
    [][(passVars' # passVars) =>
          \A p \in DOMAIN catalog :
              p \in DOMAIN catalog' /\ catalog'[p].sync = catalog[p].sync]_vars

\* the scan has committed an update of a row whose sync flag was changed after
\* the pass had loaded it, and the stored flag is the changed one
C36_Witness ==
    /\ spc = "done"
    /\ \E p \in DOMAIN existing_tracks \cap DOMAIN catalog :
          /\ catalog[p].sync # existing_tracks[p].sync
          /\ \E k \in TrackFields : <<p, k>> \in written
          /\ catalog[p].title = existing_tracks[p].title
          /\ catalog[p].last_modified = existing_tracks[p].last_modified

-----------------------------------------------------------------------------
(* The track and playlist API together *)

\* the id lists a DELETE /api/tracks/batch request may carry
DeleteIdLists == {{}, {1}, {3}, {1, 2}, {9}}

\* what the delete handlers leave alone: they execute DELETE FROM tracks and
\* commit; no statement touches playlist_tracks (models.py line 38 declares no
\* cascade, and a bulk delete runs none; SQLite enforces the foreign key of
\* line 59 only under PRAGMA foreign_keys=ON, which database.py does not issue)
deleteFixed == <<scanVars, httpVars, tracks, db_playlists, sync_mode, sync_exts,
                 rsync_paths_set, rsync_settings, key_file_exists, ftp_up, dest_exists,
                 earlierVars, remote_tree, syncPassVars>>

\* tracks.py lines 94-104
delete_tracks_batch(ids) ==
    /\ deleted_ids' = IF ids = {} THEN deleted_ids ELSE deleted_ids \cup (ids \cap TrackIds)
    /\ UNCHANGED deleteFixed

\* tracks.py lines 86-91
delete_missing_tracks ==
    /\ deleted_ids' = deleted_ids \cup {i \in TrackIds : tracks[i].missing}
    /\ UNCHANGED deleteFixed

\* every PlaylistTrack row references a row of the tracks table
RefsExist ==
    \A i \in 1..Len(db_playlists) :
        \A k \in 1..Len(db_playlists[i].tracks) :
            db_playlists[i].tracks[k].track_id \in TrackIds

LibraryInit ==
    /\ PlaylistsInit
    /\ RefsExist

LibraryNext ==
    \/ PlaylistsNext
    \/ \E ids \in DeleteIdLists : delete_tracks_batch(ids)
    \/ delete_missing_tracks

SpecLibrary == LibraryInit /\ [][LibraryNext]_vars

\* C37: after any sequence of track and playlist API operations, DELETE
\* /api/tracks/batch and DELETE /api/tracks/missing included, every playlist
\* entry references a catalog entry that still exists
C37_PlaylistRefsExist == RefsExist

-----------------------------------------------------------------------------
(* The progress reports of a pass over many files: lines 89-91, 172-177 and
   194-195 of run_scan applied to every bounded number of walked files *)

MaxFiles == 24      \* walked files in a pass

\* n walked files
WalkedFiles(n) ==
    [k \in 1..n |-> [file_path |-> [j \in 1..k |-> "t"], rel_path |-> <<>>, mtime |-> 1]]

progressFixed == <<walkVars, catalog, now, existing_tracks, new_tracks, files_scanned_set,
                   added_count, updated_count, missing_count, scan_log, commits, histVars,
                   changes, syncVars, httpVars>>

\* lines 77-91: the pass returns when no scan path is configured; otherwise the
\* walk yields its files and last_progress starts at 0
ProgressStart(n) ==
    /\ spc = "idle"
    /\ processed_files' = 0
    /\ last_progress' = 0
    /\ progress_log' = <<>>
    /\ IF NoScanPaths(scan_paths)
       THEN /\ spc' = "no_paths"
            /\ files_to_process' = <<>>
       ELSE /\ spc' = "files"
            /\ files_to_process' = WalkedFiles(n)
    /\ UNCHANGED progressFixed

\* lines 172-177: the report after one file
ProgressFile ==
    /\ spc = "files"
    /\ processed_files < Len(files_to_process)
    /\ processed_files' = processed_files + 1
    /\ LET current_progress == Percent(processed_files + 1, Len(files_to_process))
       IN  IF Reportable(current_progress, last_progress)
           THEN /\ progress_log' = Append(progress_log, current_progress)
                /\ last_progress' = current_progress
           ELSE UNCHANGED <<progress_log, last_progress>>
    /\ UNCHANGED <<spc, files_to_process, progressFixed>>

\* lines 194-195: the closing report
ProgressEnd ==
    /\ spc = "files"
    /\ processed_files = Len(files_to_process)
    /\ progress_log' = FinalProgress(progress_log, last_progress)
    /\ spc' = "done"
    /\ UNCHANGED <<files_to_process, processed_files, last_progress, progressFixed>>

ProgressInit == ScanIdle /\ SyncIdle

ProgressNext ==
    \/ \E n \in 0..MaxFiles : ProgressStart(n)
    \/ ProgressFile
    \/ ProgressEnd
    \/ ScanReturn
    \/ \E paths \in ScanRootLists : SetScanPaths(paths)

SpecProgress == ProgressInit /\ [][ProgressNext]_vars

\* the positions of the reports of 100
Hundreds == {k \in 1..Len(progress_log) : progress_log[k] = 100}

\* the reports so far are between 0 and 100, strictly increasing, at least 5 apart
\* unless the later one is 100, and 100 was reported at most once
ProgressOrdered ==
    /\ \A k \in 1..Len(progress_log) : progress_log[k] \in 0..100
    /\ \A k \in 1..(Len(progress_log) - 1) :
          /\ progress_log[k] < progress_log[k + 1]
          /\ progress_log[k + 1] # 100 => progress_log[k + 1] - progress_log[k] >= 5
    /\ Cardinality(Hundreds) <= 1

\* C38: within one scan pass the reported progress values are strictly increasing,
\* every value is between 0 and 100, two consecutive values other than the final
\* 100 differ by at least 5, and 100 is reported exactly once
C38_ProgressEveryPass ==
    /\ ProgressOrdered
    /\ spc \in {"commit", "done", "failed", "no_paths"} => Cardinality(Hundreds) = 1

\* C38 amended: the same, with 100 reported exactly once by a pass that walks its
\* roots; a pass that finds no scan path configured reports no progress
C38_ProgressWalkingPass ==
    /\ ProgressOrdered
    /\ spc \in {"commit", "done", "failed"} => Cardinality(Hundreds) = 1
    /\ spc = "no_paths" => progress_log = <<>>

\* a finished pass over more than twenty files: some percentages were skipped, a
\* value below 100 was reported and the last report is 100
C38_Witness ==
    /\ spc = "done"
    /\ Len(files_to_process) > 20
    /\ 1 < Len(progress_log) /\ Len(progress_log) < Len(files_to_process)
    /\ progress_log[Len(progress_log)] = 100

\* the entries with sync=true and missing=true
MissingSynced == {i \in 1..Len(tracks) : tracks[i].sync /\ tracks[i].missing}

\* C39: the sync pass ignores the missing flag: the normalized path of an entry
\* with sync=true and missing=true is a key of the local set, the pass never
\* removes that remote path, a generic pass that ran its COPY loop to the end
\* attempted a copy to it when the listing lacked it, and an rsync pass lists its
\* path in the include file
C39_MissingStillSynced ==
    \A i \in MissingSynced :
        LET r_path == NormPath(tracks[i].relative_path)
        IN  /\ (Generic /\ ypc \in {"copy", "done"}) => r_path \in DOMAIN local_map
            /\ \A k \in RemoveCalls : calls[k].dst # r_path
            /\ (Generic /\ ypc = "done" /\ r_path \notin remote_files)
                  => TrackCopies(r_path) # {}
            /\ (sync_mode = "rsync" /\ include_list # {})
                  => to_slashes(tracks[i].relative_path) \in include_list

\* a finished generic pass copied the absent source file of an entry flagged
\* missing, no present entry of the same path being synced
C39_Witness ==
    /\ Generic /\ ypc = "done"
    /\ \E i \in MissingSynced :
          /\ \A j \in 1..Len(tracks) : (tracks[j].sync /\ ~tracks[j].missing) =>
                NormPath(tracks[j].relative_path) # NormPath(tracks[i].relative_path)
          /\ \E k \in TrackCopies(NormPath(tracks[i].relative_path)) :
                calls[k].src = tracks[i].file_path

\* an rsync pass whose include file lists the path of an entry flagged missing
C39_RsyncCase == sync_mode = "rsync" /\ include_list # {} /\ MissingSynced # {}

====
